---- MODULE Spec2Model ----
(***************************************************************************)
(* AEGIS trust-adaptive execution engine.                                  *)
(*                                                                         *)
(* The module models the sandboxed interpreter, the AST optimizer, the     *)
(* runtime monitor, the trust manager, the code cache, the rollback        *)
(* handler and the pipeline that wires them together.                      *)
(*                                                                         *)
(* Conventions                                                             *)
(*  - trust scores are exact hundredths (0.14 is 14, 10.0 is 1000);        *)
(*  - integers of the toy language are IntBits wide instead of 32 bits,    *)
(*    the optimizer folds with unbounded integers as Python does;          *)
(*  - datetime.now() is the logical clock `now`;                           *)
(*  - a code hash is the (collision free) digest of a source text.         *)
(***************************************************************************)
EXTENDS Integers, Sequences, FiniteSets, TLC

VARIABLES
    trust_scores,          \* TrustManager.trust_scores : hash -> TrustScore
    trust_threshold,       \* TrustManager.trust_threshold (hundredths)
    optimization_enabled,  \* TrustManager.optimization_enabled
    trust_file,            \* the persisted trust store (last document written)
    cache,                 \* CodeCache.cache : hash -> CachedCode
    cache_stats,           \* CodeCache hit/miss/eviction/compilation counters
    monitor,               \* RuntimeMonitor fields
    rollback,              \* RollbackHandler fields
    pipeline,              \* AegisExecutionPipeline counters
    result,                \* outcome of the last call
    now,                   \* datetime.now()
    input                  \* argument of the pure-function harnesses

vars == <<trust_scores, trust_threshold, optimization_enabled, trust_file,
          cache, cache_stats, monitor, rollback, pipeline, result, now, input>>

trustVars == <<trust_scores, trust_threshold, optimization_enabled, trust_file>>
cacheVars == <<cache, cache_stats>>

None == "None"

-----------------------------------------------------------------------------
(* Bounds of the model *)

IntBits == 4
MaxExecutions == 3
MaxConfigs == 1

-----------------------------------------------------------------------------
(* Program constants *)

max_integer == (2 ^ (IntBits - 1)) - 1
min_integer == 0 - (2 ^ (IntBits - 1))
max_operations == 10000
default_violation_threshold == 1000
default_memory_threshold == 1048576
max_expression_depth == 10

-----------------------------------------------------------------------------
(* AST nodes *)

IntegerNode(v) == [type |-> "integer", value |-> v]
IdentifierNode(nm) == [type |-> "identifier", name |-> nm]
BinaryOpNode(l, op, r) == [type |-> "binary_op", left |-> l, operator |-> op, right |-> r]
AssignmentNode(id, e) == [type |-> "assignment", identifier |-> id, expression |-> e]
PrintNode(id) == [type |-> "print", identifier |-> id]

RECURSIVE NodeEq(_, _)
\* dataclass equality of two expression nodes
NodeEq(a, b) ==
    IF a.type # b.type THEN FALSE
    ELSE IF a.type = "integer" THEN a.value = b.value
    ELSE IF a.type = "identifier" THEN a.name = b.name
    ELSE /\ a.operator = b.operator
         /\ NodeEq(a.left, b.left)
         /\ NodeEq(a.right, b.right)

\* the tree the recursive-descent parser builds for  a o1 b o2 c
ParseExpr3(a, o1, b, o2, c) ==
    IF o1 \in {"+", "-"} /\ o2 \in {"*", "/"}
    THEN BinaryOpNode(a, o1, BinaryOpNode(b, o2, c))
    ELSE BinaryOpNode(BinaryOpNode(a, o1, b), o2, c)

-----------------------------------------------------------------------------
(* str(int) *)

Digits == <<"0", "1", "2", "3", "4", "5", "6", "7", "8", "9">>

RECURSIVE NatStr(_)
NatStr(n) == IF n < 10 THEN <<Digits[n + 1]>>
             ELSE NatStr(n \div 10) \o <<Digits[(n % 10) + 1]>>

str(v) == IF v < 0 THEN <<"-">> \o NatStr(0 - v) ELSE NatStr(v)

\* Python's // on integers (floor division), divisor non-zero
FloorDiv(a, b) ==
    IF b > 0 THEN a \div b
    ELSE IF a >= 0 THEN 0 - ((a + (0 - b) - 1) \div (0 - b))
    ELSE (0 - a) \div (0 - b)

-----------------------------------------------------------------------------
(* RuntimeMonitor: recording of one operation and violation detection *)

\* ExecutionMetrics.memory_usage is never written by any component
memory_usage == 0

\* a check_violations that reports the instruction limit one operation late
check_violations_late(instruction_count, mon) ==
    (IF instruction_count > mon.violation_threshold + 1
        THEN <<"instruction_limit">> ELSE <<>>)
    \o (IF memory_usage > mon.memory_threshold
        THEN <<"memory_limit">> ELSE <<>>)

\* RuntimeMonitor.check_violations: the violations of the current metrics
check_violations(instruction_count, mon) ==
    (IF instruction_count > mon.violation_threshold
        THEN <<"instruction_limit">> ELSE <<>>)
    \o (IF memory_usage > mon.memory_threshold
        THEN <<"memory_limit">> ELSE <<>>)

\* RuntimeMonitor.record_operation followed by _check_violations, on the
\* state st of the run in progress.  A detection appends the violations to the
\* metrics, is remembered in st.detections (one rollback-callback opportunity
\* each) and raises the first violation.
record_operation(st, mon) ==
    LET n == st.instruction_count + 1
        violations == check_violations(n, mon)
    IN  IF violations = <<>>
        THEN [st EXCEPT !.instruction_count = n]
        ELSE [st EXCEPT !.instruction_count = n,
                        !.violations_detected = @ \o violations,
                        !.detections = Append(@, violations),
                        !.status = "violation",
                        !.error = None,
                        !.raised = violations[1]]

\* RuntimeMonitor._raise_violation
raise_violation(st, violation_type) ==
    [st EXCEPT !.violations_detected = Append(@, violation_type),
               !.detections = Append(@, <<violation_type>>),
               !.status = "violation",
               !.error = None,
               !.raised = violation_type]

\* RuntimeMonitor.record_arithmetic_operation
record_arithmetic_operation(st, mon, value) ==
    LET s1 == record_operation(st, mon)
    IN  IF s1.status # "run" THEN s1
        ELSE IF value > max_integer \/ value < min_integer
             THEN raise_violation(s1, "arithmetic_overflow")
             ELSE s1

-----------------------------------------------------------------------------
(* SandboxedInterpreter *)

Fault(st, msg) == [st EXCEPT !.status = "fault", !.error = msg]

\* SandboxedInterpreter._check_operation_limit
check_operation_limit(st) ==
    LET c == st.operation_count + 1
    IN  IF c > max_operations
        THEN Fault([st EXCEPT !.operation_count = c], "Operation limit exceeded")
        ELSE [st EXCEPT !.operation_count = c]

\* SandboxedInterpreter._check_integer_bounds
check_integer_bounds(st, value) ==
    IF value < min_integer \/ value > max_integer
    THEN Fault(st, "Integer overflow")
    ELSE st

\* SandboxedInterpreter.visit_integer
visit_integer(node, st, mon) ==
    LET s1 == check_operation_limit(st)
        s2 == IF s1.status = "run" THEN check_integer_bounds(s1, node.value) ELSE s1
        s3 == IF s2.status = "run" THEN record_operation(s2, mon) ELSE s2
    IN  [st |-> s3, val |-> node.value]

\* SandboxedInterpreter.visit_identifier
visit_identifier(node, st, mon) ==
    LET s1 == check_operation_limit(st)
        s2 == IF s1.status = "run" THEN record_operation(s1, mon) ELSE s1
    IN  IF s2.status # "run" THEN [st |-> s2, val |-> 0]
        ELSE IF node.name \in DOMAIN s2.variables
             THEN [st |-> s2, val |-> s2.variables[node.name]]
             ELSE [st |-> Fault(s2, "Undefined variable"), val |-> 0]

\* the arithmetic of SandboxedInterpreter.visit_binary_op
apply_operator(op, l, r) ==
    CASE op = "+" -> l + r
      [] op = "-" -> l - r
      [] op = "*" -> l * r
      [] op = "/" -> FloorDiv(l, r)

RECURSIVE visit_expression(_, _, _)
\* SandboxedInterpreter.visit_binary_op
visit_binary_op(node, st, mon) ==
    LET s1 == check_operation_limit(st)
        lft == IF s1.status = "run" THEN visit_expression(node.left, s1, mon)
               ELSE [st |-> s1, val |-> 0]
        rgt == IF lft.st.status = "run" THEN visit_expression(node.right, lft.st, mon)
               ELSE [st |-> lft.st, val |-> 0]
        s3 == rgt.st
    IN  IF s3.status # "run" THEN [st |-> s3, val |-> 0]
        ELSE IF node.operator = "/" /\ rgt.val = 0
             THEN [st |-> Fault(s3, "Division by zero"), val |-> 0]
        ELSE LET res == apply_operator(node.operator, lft.val, rgt.val)
                 s4 == check_integer_bounds(s3, res)
                 s5 == IF s4.status = "run"
                       THEN record_arithmetic_operation(s4, mon, res) ELSE s4
             IN  [st |-> s5, val |-> res]

\* node.accept(self) on an expression node
visit_expression(node, st, mon) ==
    CASE node.type = "integer" -> visit_integer(node, st, mon)
      [] node.type = "identifier" -> visit_identifier(node, st, mon)
      [] node.type = "binary_op" -> visit_binary_op(node, st, mon)

\* SandboxedInterpreter.visit_assignment
visit_assignment(node, st, mon) ==
    LET s1 == check_operation_limit(st)
        s2 == IF s1.status = "run" THEN record_operation(s1, mon) ELSE s1
        ev == IF s2.status = "run" THEN visit_expression(node.expression, s2, mon)
              ELSE [st |-> s2, val |-> 0]
        s3 == IF ev.st.status = "run" THEN check_integer_bounds(ev.st, ev.val)
              ELSE ev.st
    IN  IF s3.status # "run" THEN s3
        ELSE record_operation(
                [s3 EXCEPT !.variables = (node.identifier :> ev.val) @@ @], mon)

\* SandboxedInterpreter.visit_print
visit_print(node, st, mon) ==
    LET s1 == check_operation_limit(st)
        s2 == IF s1.status = "run" THEN record_operation(s1, mon) ELSE s1
    IN  IF s2.status # "run" THEN s2
        ELSE IF node.identifier \notin DOMAIN s2.variables
             THEN Fault(s2, "Undefined variable")
        ELSE LET s3 == record_operation(s2, mon)
             IN  IF s3.status # "run" THEN s3
                 ELSE [s3 EXCEPT !.output_buffer =
                                    Append(@, str(s3.variables[node.identifier]))]

visit_statement(node, st, mon) ==
    IF node.type = "assignment" THEN visit_assignment(node, st, mon)
    ELSE visit_print(node, st, mon)

RECURSIVE execute_statements(_, _, _, _)
\* the loop of SandboxedInterpreter.execute over ast[i..]
execute_statements(ast, i, st, mon) ==
    IF i > Len(ast) \/ st.status # "run" THEN st
    ELSE LET s1 == check_operation_limit(st)
             s2 == IF s1.status = "run" THEN visit_statement(ast[i], s1, mon) ELSE s1
         IN  execute_statements(ast, i + 1, s2, mon)

EmptyFunction == [v \in {} |-> 0]

\* state of a run right after RuntimeMonitor.start_monitoring built the metrics
NewRun ==
    [variables |-> EmptyFunction, output_buffer |-> <<>>,
     operation_count |-> 0, instruction_count |-> 0,
     violations_detected |-> <<>>, detections |-> <<>>,
     status |-> "run", error |-> None, raised |-> None, archived |-> FALSE]

\* RuntimeMonitor.stop_monitoring as called from the finally block: records
\* the "monitor_stop" operation (which checks for violations again) and only
\* then archives the metrics
stop_monitoring(st, mon) ==
    LET s1 == record_operation(st, mon)
    IN  IF Len(s1.detections) > Len(st.detections)
        THEN s1
        ELSE [s1 EXCEPT !.archived = TRUE,
                        !.status = IF st.status = "run" THEN "ok" ELSE st.status]

\* SandboxedInterpreter.execute under a monitor with thresholds mon:
\* start_monitoring (outside the try block), the statements, and
\* stop_monitoring in the finally block
execute(ast, mon) ==
    LET s0 == record_operation(NewRun, mon)
    IN  IF s0.status # "run" THEN s0
        ELSE stop_monitoring(execute_statements(ast, 1, s0, mon), mon)

-----------------------------------------------------------------------------
(* ASTOptimizer *)

NoFlags == [constant_folding |-> FALSE, dead_code_elimination |-> FALSE,
            variable_propagation |-> FALSE, expression_simplification |-> FALSE]

\* ASTOptimizer._simplify_expression
simplify_expression(left, operator, right) ==
    IF right.type = "integer" /\ operator = "+" /\ right.value = 0 THEN left
    ELSE IF right.type = "integer" /\ operator = "-" /\ right.value = 0 THEN left
    ELSE IF right.type = "integer" /\ operator = "*" /\ right.value = 1 THEN left
    ELSE IF right.type = "integer" /\ operator = "*" /\ right.value = 0 THEN IntegerNode(0)
    ELSE IF right.type = "integer" /\ operator = "/" /\ right.value = 1 THEN left
    ELSE IF left.type = "integer" /\ operator = "+" /\ left.value = 0 THEN right
    ELSE IF left.type = "integer" /\ operator = "*" /\ left.value = 1 THEN right
    ELSE IF left.type = "integer" /\ operator = "*" /\ left.value = 0 THEN IntegerNode(0)
    ELSE BinaryOpNode(left, operator, right)

\* ASTOptimizer.visit_identifier: constant propagation
opt_visit_identifier(node, os) ==
    IF node.name \in DOMAIN os.constants
    THEN [node |-> IntegerNode(os.constants[node.name]),
          os |-> [os EXCEPT !.flags.variable_propagation = TRUE]]
    ELSE [node |-> node, os |-> os]

RECURSIVE opt_visit_expression(_, _)
\* ASTOptimizer.visit_binary_op: constant folding, then simplification
opt_visit_binary_op(node, os) ==
    LET lft == opt_visit_expression(node.left, os)
        rgt == opt_visit_expression(node.right, lft.os)
        left == lft.node
        right == rgt.node
        os2 == rgt.os
    IN  IF left.type = "integer" /\ right.type = "integer"
        THEN IF node.operator = "/" /\ right.value = 0
             THEN [node |-> BinaryOpNode(left, node.operator, right), os |-> os2]
             ELSE [node |-> IntegerNode(apply_operator(node.operator, left.value, right.value)),
                   os |-> [os2 EXCEPT !.flags.constant_folding = TRUE]]
        ELSE LET optimized == simplify_expression(left, node.operator, right)
             IN  IF ~NodeEq(optimized, node)
                 THEN [node |-> optimized,
                       os |-> [os2 EXCEPT !.flags.expression_simplification = TRUE]]
                 ELSE [node |-> BinaryOpNode(left, node.operator, right), os |-> os2]

\* ASTOptimizer.visit on an expression node
opt_visit_expression(node, os) ==
    CASE node.type = "integer" -> [node |-> node, os |-> os]
      [] node.type = "identifier" -> opt_visit_identifier(node, os)
      [] node.type = "binary_op" -> opt_visit_binary_op(node, os)

\* ASTOptimizer.visit_assignment
opt_visit_assignment(node, os) ==
    LET e == opt_visit_expression(node.expression, os)
    IN  IF e.node.type = "integer"
        THEN [node |-> AssignmentNode(node.identifier, e.node),
              os |-> [e.os EXCEPT !.constants = (node.identifier :> e.node.value) @@ @,
                                  !.flags.constant_folding = TRUE]]
        ELSE [node |-> AssignmentNode(node.identifier, e.node), os |-> e.os]

\* ASTOptimizer.visit_print (PrintNode carries an identifier string)
opt_visit_print(node, os) ==
    IF node.identifier \in DOMAIN os.constants
    THEN [node |-> node, os |-> [os EXCEPT !.flags.variable_propagation = TRUE]]
    ELSE [node |-> node, os |-> os]

opt_visit_statement(node, os) ==
    IF node.type = "assignment" THEN opt_visit_assignment(node, os)
    ELSE opt_visit_print(node, os)

RECURSIVE optimize_from(_, _, _, _)
\* the second pass of ASTOptimizer.optimize over ast[i..]
optimize_from(ast, i, os, acc) ==
    IF i > Len(ast)
    THEN [optimized_ast |-> acc, optimization_flags |-> os.flags]
    ELSE LET r == opt_visit_statement(ast[i], os)
         IN  optimize_from(ast, i + 1, r.os, Append(acc, r.node))

\* ASTOptimizer.optimize
optimize(ast) ==
    optimize_from(ast, 1, [constants |-> EmptyFunction, flags |-> NoFlags], <<>>)

\* OptimizedExecutor._calculate_speedup (hundredths)
calculate_speedup(flags) ==
    200 + (IF flags.constant_folding THEN 30 ELSE 0)
        + (IF flags.dead_code_elimination THEN 20 ELSE 0)
        + (IF flags.variable_propagation THEN 25 ELSE 0)
        + (IF flags.expression_simplification THEN 15 ELSE 0)

-----------------------------------------------------------------------------
(* StaticAnalyzer *)

RECURSIVE analyze_expression(_, _, _)
\* StaticAnalyzer.visit_binary_op / visit_identifier / visit_integer: the
\* errors found in an expression, expression_depth being the nesting so far
analyze_expression(node, defined_variables, expression_depth) ==
    IF node.type = "integer" THEN {}
    ELSE IF node.type = "identifier"
         THEN IF node.name \notin defined_variables
              THEN {"Undefined variable"} ELSE {}
    ELSE IF expression_depth + 1 > max_expression_depth
         THEN {"Expression too deeply nested"}
    ELSE analyze_expression(node.left, defined_variables, expression_depth + 1)
         \cup analyze_expression(node.right, defined_variables, expression_depth + 1)
         \cup (IF node.operator = "/" /\ node.right.type = "integer"
                  /\ node.right.value = 0
               THEN {"Division by zero detected"} ELSE {})

RECURSIVE analyze_from(_, _, _, _)
\* the loop of StaticAnalyzer.analyze over ast[i..]
analyze_from(ast, i, defined_variables, errors) ==
    IF i > Len(ast) THEN errors
    ELSE IF ast[i].type = "assignment"
         THEN analyze_from(ast, i + 1,
                           defined_variables \cup {ast[i].identifier},
                           errors \cup analyze_expression(ast[i].expression,
                                                          defined_variables, 0))
         ELSE analyze_from(ast, i + 1, defined_variables,
                           errors \cup (IF ast[i].identifier \notin defined_variables
                                        THEN {"Undefined variable"} ELSE {}))

\* StaticAnalyzer.analyze: TRUE when it returns, FALSE when it raises
analyze(ast) == analyze_from(ast, 1, {}, {}) = {}

-----------------------------------------------------------------------------
(* Programs of the equivalence harness: every parse of                     *)
(*     v = lit ; w = f [op f [op f]] ; print w                             *)
(* that passes static analysis                                             *)

Literals == {0, 1, max_integer}
Names == {"x", "y"}
Operators == {"+", "-", "*", "/"}
Factors == {IntegerNode(v) : v \in Literals} \cup {IdentifierNode(n) : n \in Names}

Expressions ==
    Factors
    \cup {BinaryOpNode(a, o, b) : a \in Factors, o \in Operators, b \in Factors}
    \cup {ParseExpr3(t[1], t[2], t[3], t[4], t[5]) :
            t \in Factors \X Operators \X Factors \X Operators \X Factors}

GeneratedPrograms ==
    {<<AssignmentNode(v, IntegerNode(l)), AssignmentNode(w, e), PrintNode(w)>> :
        v \in Names, l \in Literals, w \in Names, e \in Expressions}

default_monitor_limits ==
    [violation_threshold |-> default_violation_threshold,
     memory_threshold |-> default_memory_threshold]

\* what a caller observes of a finished run
Observation(run) ==
    [output |-> run.output_buffer, variables |-> run.variables,
     status |-> run.status, error |-> run.error,
     instruction_count |-> run.instruction_count]

-----------------------------------------------------------------------------
(* TrustScore and TrustManager.  Scores are hundredths; NoTime is the None  *)
(* of an optional timestamp.                                                *)

NoTime == 0 - 1

\* TrustScore(code_hash=...)
NewTrustScore ==
    [current_score |-> 0, execution_count |-> 0, successful_executions |-> 0,
     violation_count |-> 0, last_execution |-> NoTime, last_violation |-> NoTime,
     first_execution |-> NoTime, trust_history |-> <<>>]

Min(a, b) == IF a < b THEN a ELSE b
Max(a, b) == IF a > b THEN a ELSE b

\* s[-k:]
LastN(s, k) == IF Len(s) <= k THEN s ELSE SubSeq(s, Len(s) - k + 1, Len(s))

\* the entry of trust_history[-1] rewritten by _increase_trust/_decrease_trust
PatchLastEntry(history, score, reason) ==
    IF history = <<>> THEN history
    ELSE [history EXCEPT ![Len(history)].score_after = score,
                         ![Len(history)].reason = reason]

\* an _increase_trust that takes the increment off the score
increase_trust_downwards(ts, metrics) ==
    LET increment == 10
                     + (IF ts.successful_executions > 5 THEN 5 ELSE 0)
                     + (IF metrics.instruction_count < 100 THEN 2 ELSE 0)
                     + (IF metrics.execution_time = "fast" THEN 2 ELSE 0)
        score == Max(0, ts.current_score - increment)
    IN  [ts EXCEPT !.current_score = score,
                   !.trust_history = PatchLastEntry(@, score, "successful_execution")]

\* an _increase_trust without the cap at 10.0
increase_trust_uncapped(ts, metrics) ==
    LET increment == 10
                     + (IF ts.successful_executions > 5 THEN 5 ELSE 0)
                     + (IF metrics.instruction_count < 100 THEN 2 ELSE 0)
                     + (IF metrics.execution_time = "fast" THEN 2 ELSE 0)
        score == ts.current_score + increment
    IN  [ts EXCEPT !.current_score = score,
                   !.trust_history = PatchLastEntry(@, score, "successful_execution")]

\* an _increase_trust that grants the base increment only
increase_trust_base_only(ts, metrics) ==
    LET score == Min(1000, ts.current_score + 10)
    IN  [ts EXCEPT !.current_score = score,
                   !.trust_history = PatchLastEntry(@, score, "successful_execution")]

\* TrustScore._increase_trust (successful_executions already counts this run)
increase_trust(ts, metrics) ==
    LET increment == 10
                     + (IF ts.successful_executions > 5 THEN 5 ELSE 0)
                     + (IF metrics.instruction_count < 100 THEN 2 ELSE 0)
                     + (IF metrics.execution_time = "fast" THEN 2 ELSE 0)
        score == Min(1000, ts.current_score + increment)
    IN  [ts EXCEPT !.current_score = score,
                   !.trust_history = PatchLastEntry(@, score, "successful_execution")]

\* a _decrease_trust that leaves the score where it is
decrease_trust_keeps_score(ts) ==
    [ts EXCEPT !.trust_history =
                  PatchLastEntry(@, ts.current_score, "security_violation")]

\* a _decrease_trust with the same penalty for every violation
decrease_trust_flat(ts) ==
    LET score == Max(0, ts.current_score - 50)
    IN  [ts EXCEPT !.current_score = score,
                   !.trust_history = PatchLastEntry(@, score, "security_violation")]

\* TrustPolicy.calculate_trust_decrement (hundredths)
calculate_trust_decrement(violation_count) ==
    IF violation_count > 1 THEN 50 + 20 * (violation_count - 1) ELSE 50

\* TrustScore._decrease_trust (violation_count already counts this run)
decrease_trust(ts) ==
    LET decrement == 50 + (IF ts.violation_count > 1
                           THEN 20 * (ts.violation_count - 1) ELSE 0)
        score == Max(0, ts.current_score - decrement)
    IN  [ts EXCEPT !.current_score = score,
                   !.trust_history = PatchLastEntry(@, score, "security_violation")]

\* an add_execution_result that counts a violating run as a success too
add_execution_result_counting_twice(ts, metrics, had_violations, t) ==
    LET t1 == [ts EXCEPT !.execution_count = @ + 1,
                         !.successful_executions = @ + 1,
                         !.last_execution = t,
                         !.first_execution = IF @ = NoTime THEN t ELSE @]
        t2 == IF had_violations \/ Len(metrics.violations_detected) > 0
              THEN decrease_trust([t1 EXCEPT !.violation_count = @ + 1,
                                             !.last_violation = t])
              ELSE increase_trust(t1, metrics)
        entry == [score_before |-> t2.current_score,
                  score_after |-> t2.current_score,
                  execution_count |-> t2.execution_count,
                  had_violations |-> had_violations,
                  reason |-> None, reset |-> FALSE]
    IN  [t2 EXCEPT !.trust_history = LastN(Append(@, entry), 50)]

\* TrustScore.add_execution_result at time t
add_execution_result(ts, metrics, had_violations, t) ==
    LET t1 == [ts EXCEPT !.execution_count = @ + 1,
                         !.last_execution = t,
                         !.first_execution = IF @ = NoTime THEN t ELSE @]
        t2 == IF had_violations \/ Len(metrics.violations_detected) > 0
              THEN decrease_trust([t1 EXCEPT !.violation_count = @ + 1,
                                             !.last_violation = t])
              ELSE increase_trust([t1 EXCEPT !.successful_executions = @ + 1],
                                  metrics)
        entry == [score_before |-> t2.current_score,
                  score_after |-> t2.current_score,
                  execution_count |-> t2.execution_count,
                  had_violations |-> had_violations,
                  reason |-> None, reset |-> FALSE]
    IN  [t2 EXCEPT !.trust_history = LastN(Append(@, entry), 50)]

\* an eligibility test that ignores how recent the last violation is
eligible_ignoring_last_violation(ts, threshold) ==
    /\ ts.current_score >= threshold
    /\ ts.execution_count >= 3
    /\ 10 * ts.successful_executions >= 8 * ts.execution_count

\* TrustScore.is_eligible_for_optimization
is_eligible_for_optimization(ts, threshold) ==
    IF ts.current_score < threshold THEN FALSE
    ELSE IF ts.execution_count < 3 THEN FALSE
    ELSE IF ts.last_violation # NoTime /\ ts.last_execution # NoTime
            /\ ts.last_violation > ts.last_execution THEN FALSE
    ELSE IF 10 * ts.successful_executions < 8 * ts.execution_count THEN FALSE
    ELSE TRUE

\* a reset_trust that forgets the counters as well
reset_trust_clearing_counters(ts, reason) ==
    [ts EXCEPT !.current_score = 0,
               !.execution_count = 0,
               !.successful_executions = 0,
               !.violation_count = 0,
               !.trust_history = Append(@, [score_before |-> ts.current_score,
                                           score_after |-> 0,
                                           execution_count |-> ts.execution_count,
                                           had_violations |-> FALSE,
                                           reason |-> reason, reset |-> TRUE])]

\* TrustScore.reset_trust
reset_trust(ts, reason) ==
    [ts EXCEPT !.current_score = 0,
               !.trust_history = Append(@, [score_before |-> ts.current_score,
                                           score_after |-> 0,
                                           execution_count |-> ts.execution_count,
                                           had_violations |-> FALSE,
                                           reason |-> reason, reset |-> TRUE])]

\* TrustManager.get_trust_score: the store after the lookup (a missing record
\* is created)
get_trust_score(scores, code_hash) ==
    IF code_hash \in DOMAIN scores THEN scores
    ELSE (code_hash :> NewTrustScore) @@ scores

\* TrustManager._save_trust_data: the trust file holds the document written
\* (<<>> while the file does not exist)
save_trust_data(w) ==
    [w EXCEPT !.trust_file = <<[trust_scores |-> w.trust_scores,
                                trust_threshold |-> w.trust_threshold,
                                optimization_enabled |-> w.optimization_enabled]>>]

\* TrustManager.__init__ with _load_trust_data: the manager's fields after
\* construction over a trust file
load_trust_data(file) ==
    IF file = <<>>
    THEN [trust_scores |-> EmptyFunction, trust_threshold |-> 100,
          optimization_enabled |-> TRUE]
    ELSE [trust_scores |-> file[1].trust_scores,
          trust_threshold |-> file[1].trust_threshold,
          optimization_enabled |-> file[1].optimization_enabled]

\* TrustManager.update_trust
update_trust(w, code_hash, metrics, violations, t) ==
    LET scores == get_trust_score(w.trust_scores, code_hash)
        had_violations == Len(violations) > 0
        updated == add_execution_result(scores[code_hash], metrics, had_violations, t)
    IN  save_trust_data([w EXCEPT !.trust_scores =
                                    [scores EXCEPT ![code_hash] = updated]])

\* TrustManager.is_trusted_for_optimization (the record is looked up, hence
\* created, only when optimization is enabled)
is_trusted_for_optimization(w, code_hash) ==
    IF ~w.optimization_enabled THEN FALSE
    ELSE is_eligible_for_optimization(
             get_trust_score(w.trust_scores, code_hash)[code_hash],
             w.trust_threshold)

\* f"security_violation_{violation_type}"
revocation_reason(violation_type) ==
    CASE violation_type = "instruction_limit" -> "security_violation_instruction_limit"
      [] violation_type = "memory_limit" -> "security_violation_memory_limit"
      [] violation_type = "arithmetic_overflow" -> "security_violation_arithmetic_overflow"

\* TrustManager.revoke_trust_for_violation
revoke_trust_for_violation(w, code_hash, violation_type) ==
    LET scores == get_trust_score(w.trust_scores, code_hash)
    IN  save_trust_data(
            [w EXCEPT !.trust_scores =
                [scores EXCEPT ![code_hash] =
                    reset_trust(@, revocation_reason(violation_type))]])

\* TrustManager.set_trust_threshold (not written through to the trust file)
set_trust_threshold(w, threshold) ==
    [w EXCEPT !.trust_threshold = Max(0, Min(1000, threshold))]

\* TrustManager.enable_optimization (not written through to the trust file)
enable_optimization(w, enabled) ==
    [w EXCEPT !.optimization_enabled = enabled]

-----------------------------------------------------------------------------
(* CodeCache.  w is the record of the component states an operation may     *)
(* touch; t is the time of the call.                                        *)

max_age == 24

\* CodeCache._evict
evict(w, code_hash) ==
    IF code_hash \in DOMAIN w.cache
    THEN [w EXCEPT !.cache = [h \in (DOMAIN w.cache) \ {code_hash} |-> w.cache[h]],
                   !.cache_stats.evictions = @ + 1]
    ELSE w

\* CodeCache._evict_lru: the entry with the oldest last_accessed
evict_lru(w) ==
    IF DOMAIN w.cache = {} THEN w
    ELSE evict(w, CHOOSE h \in DOMAIN w.cache :
                    \A g \in DOMAIN w.cache :
                        w.cache[h].last_accessed <= w.cache[g].last_accessed)

\* a get that finds nothing
cache_get_missing(w, code_hash, t) ==
    [w |-> [w EXCEPT !.cache_stats.cache_misses = @ + 1], hit |-> FALSE]

\* CodeCache.get: the state after the call and whether it was a hit
cache_get(w, code_hash, t) ==
    IF code_hash \notin DOMAIN w.cache
    THEN [w |-> [w EXCEPT !.cache_stats.cache_misses = @ + 1], hit |-> FALSE]
    ELSE IF t - w.cache[code_hash].created_at > w.cache_stats.max_age
    THEN [w |-> [evict(w, code_hash) EXCEPT !.cache_stats.cache_misses = @ + 1],
          hit |-> FALSE]
    ELSE [w |-> [w EXCEPT !.cache[code_hash].last_accessed = t,
                          !.cache[code_hash].access_count = @ + 1,
                          !.cache_stats.cache_hits = @ + 1],
          hit |-> TRUE]

\* a put that keeps nothing but the entry it inserts
cache_put_alone(w, code_hash, optimized_ast, optimization_flags, t) ==
    [w EXCEPT !.cache = (code_hash :>
                            [optimized_ast |-> optimized_ast,
                             optimization_flags |-> optimization_flags,
                             created_at |-> t, last_accessed |-> t,
                             access_count |-> 0, stats_count |-> 0]),
              !.cache_stats.compilations = @ + 1]

\* CodeCache.put
cache_put(w, code_hash, optimized_ast, optimization_flags, t) ==
    LET w1 == IF Cardinality(DOMAIN w.cache) >= w.cache_stats.max_size
              THEN evict_lru(w) ELSE w
        entry == [optimized_ast |-> optimized_ast,
                  optimization_flags |-> optimization_flags,
                  created_at |-> t, last_accessed |-> t,
                  access_count |-> 0, stats_count |-> 0]
    IN  [w1 EXCEPT !.cache = (code_hash :> entry) @@ @,
                   !.cache_stats.compilations = @ + 1]

\* a clear that drops every entry instead of the one asked for
cache_clear_everything(w, code_hash) ==
    [w EXCEPT !.cache = EmptyFunction]

\* CodeCache.clear
cache_clear(w, code_hash) ==
    IF code_hash \in DOMAIN w.cache
    THEN [w EXCEPT !.cache = [h \in (DOMAIN w.cache) \ {code_hash} |-> w.cache[h]]]
    ELSE w

\* CodeCache.cleanup_expired at time t
cleanup_expired(w, t) ==
    LET expired_hashes == {h \in DOMAIN w.cache :
                              t - w.cache[h].created_at > w.cache_stats.max_age}
    IN  [w EXCEPT !.cache = [h \in (DOMAIN w.cache) \ expired_hashes |-> w.cache[h]],
                  !.cache_stats.evictions = @ + Cardinality(expired_hashes)]

\* CodeCache.update_performance_stats (only the number of samples is kept)
update_performance_stats(w, code_hash) ==
    IF code_hash \in DOMAIN w.cache
    THEN [w EXCEPT !.cache[code_hash].stats_count = @ + 1]
    ELSE w

\* OptimizedExecutor.clear_cache with a code hash
clear_cache(w, code_hash) == cache_clear(w, code_hash)

-----------------------------------------------------------------------------
(* RollbackHandler *)

max_rollback_history == 100

Bump(f, k) == IF k \in DOMAIN f THEN [f EXCEPT ![k] = @ + 1] ELSE (k :> 1) @@ f

\* a _record_rollback that never drops an event
record_rollback_unbounded(w, event) ==
    [w EXCEPT !.rollback.rollback_history = Append(@, event),
              !.rollback.total_rollbacks = @ + 1,
              !.rollback.rollbacks_by_type = Bump(@, event.violation_type),
              !.rollback.rollbacks_by_code = Bump(@, event.code_hash)]

\* RollbackHandler._record_rollback
record_rollback(w, event) ==
    [w EXCEPT !.rollback.rollback_history =
                    LastN(Append(@, event), max_rollback_history),
              !.rollback.total_rollbacks = @ + 1,
              !.rollback.rollbacks_by_type = Bump(@, event.violation_type),
              !.rollback.rollbacks_by_code = Bump(@, event.code_hash)]

\* a trigger_rollback that does not look at rollback_enabled
trigger_rollback_always(w, violation_type, code_hash, violations, trust_score_before, t) ==
    LET w1 == IF w.rollback.cache_clear_callback
              THEN clear_cache(w, code_hash) ELSE w
        revoke == w1.rollback.trust_update_callback
                  /\ w1.rollback.auto_trust_revocation
        w2 == IF revoke
              THEN revoke_trust_for_violation(w1, code_hash, violation_type)
              ELSE w1
        event == [timestamp |-> t,
                  violation_type |-> violation_type,
                  code_hash |-> code_hash,
                  execution_mode |-> "optimized",
                  violation_count |-> IF Len(violations) > 0
                                      THEN Len(violations) ELSE 1,
                  trust_score_before |-> trust_score_before,
                  trust_score_after |-> IF revoke
                                        THEN Max(0, trust_score_before - 50)
                                        ELSE trust_score_before]
        w3 == record_rollback(w2, event)
    IN  [w3 EXCEPT !.rollback.notifications = @ + w3.rollback.observers]

\* RollbackHandler.trigger_rollback
trigger_rollback(w, violation_type, code_hash, violations, trust_score_before, t) ==
    IF ~w.rollback.rollback_enabled THEN w
    ELSE LET w1 == IF w.rollback.cache_clear_callback
                   THEN clear_cache(w, code_hash) ELSE w
             revoke == w1.rollback.trust_update_callback
                       /\ w1.rollback.auto_trust_revocation
             w2 == IF revoke
                   THEN revoke_trust_for_violation(w1, code_hash, violation_type)
                   ELSE w1
             event == [timestamp |-> t,
                       violation_type |-> violation_type,
                       code_hash |-> code_hash,
                       execution_mode |-> "optimized",
                       violation_count |-> IF Len(violations) > 0
                                           THEN Len(violations) ELSE 1,
                       trust_score_before |-> trust_score_before,
                       trust_score_after |-> IF revoke
                                             THEN Max(0, trust_score_before - 50)
                                             ELSE trust_score_before]
             w3 == record_rollback(w2, event)
         IN  [w3 EXCEPT !.rollback.notifications = @ + w3.rollback.observers]

\* RollbackHandler.should_rollback
should_rollback(w, violations, execution_mode) ==
    IF ~w.rollback.rollback_enabled THEN FALSE
    ELSE IF execution_mode # "optimized" THEN FALSE
    ELSE Len(violations) > 0

-----------------------------------------------------------------------------
(* Wiring of AegisExecutionPipeline._setup_integrations *)

\* OptimizedExecutor.set_rollback_handler: keeps the handler it is given
set_rollback_handler(handler) == handler

\* the closure rollback_callback registered on the monitor
rollback_callback(w, violations, execution_mode, code_hash, t) ==
    IF Len(violations) > 0 /\ execution_mode = "optimized"
    THEN LET scores == get_trust_score(w.trust_scores, code_hash)
             w1 == trigger_rollback([w EXCEPT !.trust_scores = scores],
                                    violations[1], code_hash, violations,
                                    scores[code_hash].current_score, t)
         IN  [w1 EXCEPT !.pipeline.rollback_count = @ + 1]
    ELSE w

\* a test that hands a detection to the callback whatever code hash is set
invokes_callback_without_code_hash(mon) ==
    /\ mon.rollback_callback
    /\ mon.current_execution_mode = "optimized"

\* the test of RuntimeMonitor._check_violations / _raise_violation that
\* decides whether a detection is handed to the rollback callback
invokes_rollback_callback(mon) ==
    /\ mon.rollback_callback
    /\ mon.current_execution_mode = "optimized"
    /\ mon.current_code_hash # None
    /\ mon.current_code_hash # ""

RECURSIVE rollback_on_every_detection(_, _, _, _, _)
\* a monitor that triggers the rollback for every detection, whatever mode
\* is set on it
rollback_on_every_detection(w, mon, detections, i, t) ==
    IF i > Len(detections) THEN w
    ELSE rollback_on_every_detection(
            trigger_rollback(w, detections[i][1], "hash_A", detections[i], 0, t),
            mon, detections, i + 1, t)

RECURSIVE handle_detections(_, _, _, _, _)
\* the rollback-callback calls of one run, detections[i..] in order
handle_detections(w, mon, detections, i, t) ==
    IF i > Len(detections) THEN w
    ELSE handle_detections(
            IF invokes_rollback_callback(mon)
            THEN rollback_callback(w, detections[i], mon.current_execution_mode,
                                   mon.current_code_hash, t)
            ELSE w,
            mon, detections, i + 1, t)

\* number of rollback-callback calls of a run
callback_calls(mon, run) ==
    IF invokes_rollback_callback(mon) THEN Len(run.detections) ELSE 0

-----------------------------------------------------------------------------
(* RuntimeMonitor state around a run *)

\* ExecutionMetrics()
NewMetrics ==
    [instruction_count |-> 0, violations_detected |-> <<>>,
     execution_time |-> "fast", optimization_applied |-> FALSE,
     cache_hit |-> FALSE, speedup_factor |-> 100]

\* the ExecutionMetrics object the monitor built during a run
run_metrics(run, execution_time) ==
    [NewMetrics EXCEPT !.instruction_count = run.instruction_count,
                       !.violations_detected = run.violations_detected,
                       !.execution_time = execution_time]

\* the monitor after SandboxedInterpreter.execute returned or raised:
\* stop_monitoring either archived the metrics and went idle, or raised
\* before doing so (start_monitoring raising is outside the try block)
monitor_after(mon, run, execution_time) ==
    IF run.archived
    THEN [mon EXCEPT !.execution_history =
                        LastN(Append(@, run_metrics(run, execution_time)), 100),
                     !.current_metrics = <<>>,
                     !.is_monitoring = FALSE,
                     !.monitored_context = FALSE]
    ELSE [mon EXCEPT !.current_metrics = <<run_metrics(run, execution_time)>>,
                     !.is_monitoring = TRUE,
                     !.monitored_context = TRUE]

\* RuntimeMonitor.set_execution_mode
set_execution_mode(mon, mode, code_hash) ==
    [mon EXCEPT !.current_execution_mode = mode, !.current_code_hash = code_hash]

\* RuntimeMonitor.set_violation_threshold
set_violation_threshold(mon, threshold) ==
    [mon EXCEPT !.violation_threshold = threshold]

\* RuntimeMonitor.__init__
NewMonitor ==
    [current_metrics |-> <<>>, execution_history |-> <<>>,
     violation_threshold |-> default_violation_threshold,
     memory_threshold |-> default_memory_threshold,
     is_monitoring |-> FALSE, monitored_context |-> FALSE,
     rollback_callback |-> FALSE,
     current_execution_mode |-> "sandboxed", current_code_hash |-> None]

\* RollbackHandler.__init__
NewRollbackHandler ==
    [rollback_history |-> <<>>, rollback_enabled |-> TRUE,
     auto_trust_revocation |-> TRUE, total_rollbacks |-> 0,
     rollbacks_by_type |-> EmptyFunction, rollbacks_by_code |-> EmptyFunction,
     cache_clear_callback |-> FALSE, trust_update_callback |-> FALSE,
     observers |-> 0, notifications |-> 0]

\* CodeCache.__init__: counters and limits (max_age_hours defaults to 24)
NewCacheStats(size) ==
    [cache_hits |-> 0, cache_misses |-> 0, evictions |-> 0, compilations |-> 0,
     max_size |-> size, max_age |-> max_age]

-----------------------------------------------------------------------------
(* Source programs given to the pipeline, their parse and their hash *)

Sources == {"A", "B", "F", "E"}

\* the number of assignments of the long program "L"
LongProgramLength == 33

\* Parser.parse(Lexer.tokenize(source))
parse(source) ==
    CASE source = "A" ->    \* x = 5 ; y = x + 0 ; print y
            <<AssignmentNode("x", IntegerNode(5)),
              AssignmentNode("y", BinaryOpNode(IdentifierNode("x"), "+", IntegerNode(0))),
              PrintNode("y")>>
      [] source = "B" ->    \* x = 1 ; print x
            <<AssignmentNode("x", IntegerNode(1)), PrintNode("x")>>
      [] source = "F" ->    \* y = 0 ; x = 1 / y * 0 ; print x
            <<AssignmentNode("y", IntegerNode(0)),
              AssignmentNode("x", ParseExpr3(IntegerNode(1), "/", IdentifierNode("y"),
                                             "*", IntegerNode(0))),
              PrintNode("x")>>
      [] source = "E" ->    \* print x
            <<PrintNode("x")>>
      [] source = "L" ->    \* x = 1 ; ... ; x = 1 ; print x
            [i \in 1..LongProgramLength |-> AssignmentNode("x", IntegerNode(1))]
                \o <<PrintNode("x")>>

\* TrustManager.get_code_hash: the first 16 hex digits of SHA-256
get_code_hash(source) ==
    CASE source = "A" -> "hash_A"
      [] source = "B" -> "hash_B"
      [] source = "F" -> "hash_F"
      [] source = "E" -> "hash_E"
      [] source = "L" -> "hash_L"

Hashes == {get_code_hash(src) : src \in Sources}

\* a run is "fast" when it takes less than 0.1 s
ExecutionTimes == {"fast", "slow"}

\* the calls of execute the model makes: the time a run takes is varied for
\* one program only
Runs == (Sources \X {"fast"}) \cup ({"A"} \X ExecutionTimes)

-----------------------------------------------------------------------------
(* OptimizedExecutor.execute_optimized *)

\* the part of execute_optimized before the optimized AST is run: the cache
\* lookup and, on a miss, optimization and insertion
prepare_optimized(w, code_hash, ast, t) ==
    LET got == cache_get(w, code_hash, t)
    IN  IF got.hit
        THEN [w |-> got.w, cache_hit |-> TRUE,
              optimized_ast |-> got.w.cache[code_hash].optimized_ast,
              optimization_flags |-> got.w.cache[code_hash].optimization_flags]
        ELSE LET o == optimize(ast)
             IN  [w |-> cache_put(got.w, code_hash, o.optimized_ast,
                                  o.optimization_flags, t),
                  cache_hit |-> FALSE,
                  optimized_ast |-> o.optimized_ast,
                  optimization_flags |-> o.optimization_flags]

\* the ExecutionMetrics execute_optimized returns when the run completes
optimized_metrics(prep, execution_time) ==
    [NewMetrics EXCEPT !.execution_time = execution_time,
                       !.instruction_count = Len(prep.optimized_ast),
                       !.optimization_applied = TRUE,
                       !.cache_hit = prep.cache_hit,
                       !.speedup_factor = calculate_speedup(prep.optimization_flags)]

-----------------------------------------------------------------------------
(* AegisExecutionPipeline.execute *)

NoResult ==
    [kind |-> "none", source |-> None, code_hash |-> None, success |-> FALSE,
     output |-> <<>>, execution_mode |-> None, trust_score |-> 0,
     violations |-> <<>>, rollback_events |-> <<>>, error_message |-> None,
     metrics |-> NewMetrics, run_status |-> None, callback_calls |-> 0,
     monitor_mode |-> None, monitor_code_hash |-> None]

\* rollback_handler.get_rollback_history(code_hash)
get_rollback_history(w, code_hash) ==
    SelectSeq(w.rollback.rollback_history, LAMBDA e : e.code_hash = code_hash)

\* history[-1] if history else ExecutionMetrics(), then
\* metrics.violations_detected.extend(violations): the archived object itself
\* is extended
extend_last_metrics(mon, violations) ==
    IF mon.execution_history = <<>> THEN mon
    ELSE [mon EXCEPT !.execution_history[Len(mon.execution_history)]
                          .violations_detected = @ \o violations]

last_metrics(mon) ==
    IF mon.execution_history = <<>> THEN NewMetrics
    ELSE mon.execution_history[Len(mon.execution_history)]

\* a mode selection that ignores the trust decision
select_mode_ignoring_trust(is_trusted) == "optimized"

\* execution_mode = 'optimized' if is_trusted else 'sandboxed'
select_execution_mode(is_trusted) ==
    IF is_trusted THEN "optimized" ELSE "sandboxed"

\* execute up to the choice of the execution mode and, in optimized mode,
\* the cache lookup of execute_optimized (w already counts the call)
start_execute(w, source, t) ==
    LET code_hash == get_code_hash(source)
        w1 == [w EXCEPT !.trust_scores = get_trust_score(@, code_hash)]
        is_trusted == is_trusted_for_optimization(w1, code_hash)
        execution_mode == select_execution_mode(is_trusted)
    IN  IF execution_mode = "sandboxed"
        THEN [w |-> w1, execution_mode |-> execution_mode, cache_hit |-> FALSE,
              optimized_ast |-> parse(source), optimization_flags |-> NoFlags]
        ELSE [execution_mode |-> execution_mode] @@
             prepare_optimized([w1 EXCEPT !.pipeline.optimized_executions = @ + 1],
                               code_hash, parse(source), t)

\* execute from the end of the program's run: the exception handlers, the
\* trust update and the result
finish_execute(mon, source, execution_time, t, prep, run) ==
    LET code_hash == get_code_hash(source)
        optimized == prep.execution_mode # "sandboxed"
        mon1 == monitor_after(mon, run, execution_time)
        w2 == handle_detections(prep.w, mon, run.detections, 1, t)
    IN
    IF run.status = "fault"
    THEN \* AegisRuntimeError: the outer handler builds a failed result
         [w |-> w2, monitor |-> mon1,
          result |-> [NoResult EXCEPT !.kind = "returned", !.source = source,
                                      !.code_hash = code_hash,
                                      !.execution_mode = "failed",
                                      !.error_message = run.error,
                                      !.run_status = "fault",
                                      !.monitor_mode = mon.current_execution_mode,
                                      !.monitor_code_hash = mon.current_code_hash]]
    ELSE
    LET violations == IF run.status = "violation" THEN <<run.raised>> ELSE <<>>
        mon2 == IF run.status = "violation"
                THEN extend_last_metrics(mon1, violations) ELSE mon1
        metrics == IF run.status = "violation"
                   THEN [last_metrics(mon1) EXCEPT !.violations_detected =
                                                        @ \o violations]
                   ELSE IF optimized
                        THEN optimized_metrics(prep, execution_time)
                        ELSE last_metrics(mon1)
        w3 == IF run.status = "ok" /\ optimized /\ prep.cache_hit
              THEN update_performance_stats(w2, code_hash) ELSE w2
        w4 == update_trust(w3, code_hash, metrics, violations, t)
        w5 == [w4 EXCEPT !.pipeline.successful_executions = @ + 1]
    IN  [w |-> w5, monitor |-> mon2,
         result |-> [NoResult EXCEPT
                        !.kind = "returned", !.source = source,
                        !.code_hash = code_hash, !.success = TRUE,
                        !.output = run.output_buffer,
                        !.execution_mode = prep.execution_mode,
                        !.trust_score = w5.trust_scores[code_hash].current_score,
                        !.violations = violations,
                        !.rollback_events =
                            IF run.status = "violation"
                            THEN get_rollback_history(w2, code_hash) ELSE <<>>,
                        !.metrics = metrics,
                        !.run_status = run.status,
                        !.callback_calls = callback_calls(mon, run),
                        !.monitor_mode = mon.current_execution_mode,
                        !.monitor_code_hash = mon.current_code_hash]]

\* the run of the prepared program and what follows it (the run is computed
\* once)
execute_prepared(mon, source, execution_time, t, prep) ==
    CHOOSE outcome \in
        {finish_execute(mon, source, execution_time, t, prep, run) :
            run \in {execute(prep.optimized_ast, mon)}} : TRUE

\* an execute that goes straight from parsing to the choice of the mode
execute_without_analysis(w, mon, source, execution_time, t) ==
    CHOOSE outcome \in
        {execute_prepared(mon, source, execution_time, t, prep) :
            prep \in {start_execute(
                        [w EXCEPT !.pipeline.total_executions = @ + 1],
                        source, t)}} : TRUE

\* execute(source_code) at time t, the run taking execution_time: the
\* component states and the result afterwards
pipeline_execute(w, mon, source, execution_time, t) ==
    IF ~analyze(parse(source))
    THEN \* AnalysisError of static_analyzer.py is none of the caught classes
         [w |-> [w EXCEPT !.pipeline.total_executions = @ + 1], monitor |-> mon,
          result |-> [NoResult EXCEPT !.kind = "raised", !.source = source,
                                      !.error_message = "AnalysisError"]]
    ELSE CHOOSE outcome \in
            {execute_prepared(mon, source, execution_time, t, prep) :
                prep \in {start_execute(
                            [w EXCEPT !.pipeline.total_executions = @ + 1],
                            source, t)}} : TRUE

-----------------------------------------------------------------------------
(* AegisExecutionPipeline.__init__ and configure_system *)

\* the component states an operation may touch, as one record
World ==
    [trust_scores |-> trust_scores, trust_threshold |-> trust_threshold,
     optimization_enabled |-> optimization_enabled, trust_file |-> trust_file,
     cache |-> cache, cache_stats |-> cache_stats, rollback |-> rollback,
     pipeline |-> pipeline]

SetWorld(w) ==
    /\ trust_scores' = w.trust_scores
    /\ trust_threshold' = w.trust_threshold
    /\ optimization_enabled' = w.optimization_enabled
    /\ trust_file' = w.trust_file
    /\ cache' = w.cache
    /\ cache_stats' = w.cache_stats
    /\ rollback' = w.rollback
    /\ pipeline' = w.pipeline

\* the pipeline's own counters; configure_calls counts configure_system calls
\* for the bound MaxConfigs
NewPipeline ==
    [total_executions |-> 0, successful_executions |-> 0,
     optimized_executions |-> 0, rollback_count |-> 0,
     optimizer_rollback_handler |-> set_rollback_handler(TRUE),
     configure_calls |-> 0]

\* AegisExecutionPipeline(trust_file, cache_size, violation_threshold,
\* trust_threshold): the components after __init__ and _setup_integrations
new_pipeline(file, cache_size, violation_threshold, threshold) ==
    LET tm == load_trust_data(file)
        w == [trust_scores |-> tm.trust_scores,
              trust_threshold |-> tm.trust_threshold,
              optimization_enabled |-> tm.optimization_enabled,
              trust_file |-> file,
              cache |-> EmptyFunction, cache_stats |-> NewCacheStats(cache_size),
              rollback |-> [NewRollbackHandler EXCEPT
                                !.trust_update_callback = TRUE,
                                !.cache_clear_callback = TRUE],
              pipeline |-> NewPipeline]
    IN  [w |-> set_trust_threshold(w, threshold),
         monitor |-> [set_violation_threshold(NewMonitor, violation_threshold)
                        EXCEPT !.rollback_callback = TRUE]]

\* an optional keyword argument: <<>> is None, <<v>> is the value v
Optional(S) == {<<>>} \cup {<<v>> : v \in S}

\* RollbackHandler.enable_rollback
enable_rollback(w, enabled) == [w EXCEPT !.rollback.rollback_enabled = enabled]

\* configure_system: the parts of the world it changes
configure_system(w, trust_thr, optimization, rollback_on) ==
    LET w1 == IF trust_thr # <<>> THEN set_trust_threshold(w, trust_thr[1]) ELSE w
        w2 == IF optimization # <<>>
              THEN enable_optimization(w1, optimization[1]) ELSE w1
    IN  IF rollback_on # <<>> THEN enable_rollback(w2, rollback_on[1]) ELSE w2

-----------------------------------------------------------------------------
(* The pipeline as a state machine *)

PriorRuns == 12

\* arguments of the constructor and of configure_system
ViolationThresholds == {5, default_violation_threshold}
ConfiguredViolationThresholds == {5}
ConfiguredTrustThresholds == {5}
ConfiguredFlags == {FALSE}

\* one more fast run of program "A" in a session p, at time t
run_in_session(p, t) ==
    LET r == pipeline_execute(p.w, p.monitor, "A", "fast", t)
    IN  [w |-> r.w, monitor |-> r.monitor]

RECURSIVE prior_session(_)
\* the pipeline of an earlier session after k fast runs of program "A"
\* (default construction over a missing trust file, runs at times 1..k)
prior_session(k) ==
    IF k = 0
    THEN new_pipeline(<<>>, 100, default_violation_threshold, 100)
    ELSE CHOOSE q \in {run_in_session(p, k) : p \in {prior_session(k - 1)}} : TRUE

\* the trust file a new session may find: none, or the one left by an
\* earlier session of PriorRuns runs
TrustFiles == {<<>>, prior_session(PriorRuns).w.trust_file}

Init ==
    /\ \E p \in {new_pipeline(file, 100, violation_threshold, 100) :
                    file \in TrustFiles,
                    violation_threshold \in ViolationThresholds} :
              /\ trust_scores = p.w.trust_scores
              /\ trust_threshold = p.w.trust_threshold
              /\ optimization_enabled = p.w.optimization_enabled
              /\ trust_file = p.w.trust_file
              /\ cache = p.w.cache
              /\ cache_stats = p.w.cache_stats
              /\ rollback = p.w.rollback
              /\ pipeline = p.w.pipeline
              /\ monitor = p.monitor
    /\ result = NoResult
    /\ now = PriorRuns + 1
    /\ input = None

\* pipeline.execute(source)
Execute(source, execution_time) ==
    /\ pipeline.total_executions < MaxExecutions
    /\ \E r \in {pipeline_execute(World, monitor, source, execution_time, now)} :
          /\ SetWorld(r.w)
          /\ monitor' = r.monitor
          /\ result' = r.result
    /\ now' = now + 1
    /\ UNCHANGED input

\* pipeline.configure_system(...)
Configure(violation_thr, trust_thr, optimization, rollback_on) ==
    /\ pipeline.configure_calls < MaxConfigs
    /\ SetWorld([configure_system(World, trust_thr, optimization, rollback_on)
                    EXCEPT !.pipeline.configure_calls = @ + 1])
    /\ monitor' = IF violation_thr # <<>>
                  THEN set_violation_threshold(monitor, violation_thr[1])
                  ELSE monitor
    /\ result' = [NoResult EXCEPT !.kind = "configured"]
    /\ UNCHANGED <<now, input>>

Next ==
    \/ \E r \in Runs : Execute(r[1], r[2])
    \/ \E vt \in Optional(ConfiguredViolationThresholds),
          tt \in Optional(ConfiguredTrustThresholds),
          oe \in Optional(ConfiguredFlags), re \in Optional(ConfiguredFlags) :
          Configure(vt, tt, oe, re)

Spec == Init /\ [][Next]_vars

-----------------------------------------------------------------------------
(* Equivalence harness: one analysed program run by both executors *)

\* the hash of the program under test
input_hash == "hash_input"

InitOpt ==
    /\ input \in {p \in GeneratedPrograms : analyze(p)}
    /\ \E p \in {new_pipeline(<<>>, 100, default_violation_threshold, 100)} :
           /\ trust_scores = p.w.trust_scores
           /\ trust_threshold = p.w.trust_threshold
           /\ optimization_enabled = p.w.optimization_enabled
           /\ trust_file = p.w.trust_file
           /\ cache = p.w.cache
           /\ cache_stats = p.w.cache_stats
           /\ rollback = p.w.rollback
           /\ pipeline = p.w.pipeline
           /\ monitor = p.monitor
    /\ result = NoResult
    /\ now = 0

\* SandboxedInterpreter.execute(ast) and OptimizedExecutor.execute_optimized
\* (hash, ast), each on a fresh context
RunBoth ==
    /\ result.kind = "none"
    /\ \E prep \in {prepare_optimized(World, input_hash, input, now)} :
       \E sandboxed \in {execute(input, monitor)},
          optimized \in {execute(prep.optimized_ast, monitor)} :
           /\ SetWorld(prep.w)
           /\ monitor' = monitor_after(monitor_after(monitor, sandboxed, "fast"),
                                       optimized, "fast")
           /\ result' = [kind |-> "equivalence",
                         sandboxed |-> Observation(sandboxed),
                         optimized |-> Observation(optimized)]
    /\ now' = now + 1
    /\ UNCHANGED input

NextOpt == RunBoth

SpecOpt == InitOpt /\ [][NextOpt]_vars

\* C1: for every program that passes static analysis, the optimized executor
\* yields the same output sequence and the same final variable bindings as the
\* sandboxed interpreter on the unmodified AST.
C1_SameOutputAndBindings ==
    result.kind = "equivalence" =>
        /\ result.optimized.output = result.sandboxed.output
        /\ result.optimized.variables = result.sandboxed.variables

\* C2: a program raises a runtime fault when executed from its optimized AST
\* if and only if it raises that same fault when executed unoptimized.
C2_SameFaults ==
    result.kind = "equivalence" =>
        /\ (result.optimized.status = "fault") = (result.sandboxed.status = "fault")
        /\ result.optimized.error = result.sandboxed.error

\* when the unoptimized run completes, the optimized run produces the same
\* output and bindings
EquivalentWhenNoFault ==
    (result.kind = "equivalence" /\ result.sandboxed.status = "ok") =>
        /\ result.optimized.status = "ok"
        /\ result.optimized.output = result.sandboxed.output
        /\ result.optimized.variables = result.sandboxed.variables

-----------------------------------------------------------------------------
(* Properties of pipeline runs (specification Spec) *)

\* the step is a call of execute that got as far as running the program
IsRun == /\ pipeline'.total_executions = pipeline.total_executions + 1
         /\ result'.kind = "returned"

\* the step is a run in optimized mode that exceeded violation_threshold
IsOptimizedRunOverThreshold ==
    /\ IsRun
    /\ pipeline'.optimized_executions = pipeline.optimized_executions + 1
    /\ result'.run_status = "violation"
    /\ result'.violations = <<"instruction_limit">>

\* the last call was a run in optimized mode that exceeded violation_threshold
OptimizedRunWentOverThreshold ==
    /\ result.kind = "returned"
    /\ result.execution_mode = "optimized"
    /\ result.violations = <<"instruction_limit">>

\* C3: whenever a run executed in optimized mode exceeds the monitor's
\* violation_threshold, exactly one RollbackEvent is recorded for that run,
\* and its violation_type is instruction_limit.
C3_OneRollbackEventPerViolatingRun ==
    [][IsOptimizedRunOverThreshold =>
        /\ rollback'.total_rollbacks = rollback.total_rollbacks + 1
        /\ rollback'.rollback_history # <<>>
        /\ LET event == rollback'.rollback_history[Len(rollback'.rollback_history)]
           IN  /\ event.violation_type = "instruction_limit"
               /\ event.code_hash = result'.code_hash]_vars

\* C4: after a run that was executed in optimized mode and exceeded
\* violation_threshold, the program's hash has no cache entry and its trust
\* score is exactly 0.
C4_CacheClearedAndTrustZero ==
    OptimizedRunWentOverThreshold =>
        /\ result.code_hash \notin DOMAIN cache
        /\ trust_scores[result.code_hash].current_score = 0

\* the run of this step took the optimized path
RanOptimized == pipeline'.optimized_executions = pipeline.optimized_executions + 1

\* C5: a pipeline run is executed in optimized mode only if
\* is_trusted_for_optimization held for its code hash immediately before the
\* run, and is executed sandboxed otherwise; a code hash with no previously
\* recorded executions always runs sandboxed.
C5_ModeFollowsTrustBeforeRun ==
    [][IsRun =>
        LET code_hash == result'.code_hash
            trusted == is_trusted_for_optimization(World, code_hash)
            unrecorded == \/ code_hash \notin DOMAIN trust_scores
                          \/ trust_scores[code_hash].execution_count = 0
        IN  /\ RanOptimized <=> trusted
            /\ result'.success =>
                  result'.execution_mode =
                      IF trusted THEN "optimized" ELSE "sandboxed"
            /\ unrecorded => (~RanOptimized /\ result'.execution_mode # "optimized")
    ]_vars

\* runs of both modes have happened, the last one sandboxed
C5_Witness ==
    /\ result.kind = "returned"
    /\ result.execution_mode = "sandboxed"
    /\ pipeline.optimized_executions >= 1

\* the most recently recorded run of code_hash had a violation
LastRunViolated(code_hash) ==
    /\ code_hash \in DOMAIN trust_scores
    /\ trust_scores[code_hash].trust_history # <<>>
    /\ LET history == trust_scores[code_hash].trust_history
       IN  history[Len(history)].had_violations

\* C7: if the most recently recorded run of code hash H had a violation, the
\* next run of H is not executed in optimized mode.
C7_NoPromotionRightAfterViolation ==
    [][(IsRun /\ LastRunViolated(result'.code_hash)) =>
            (~RanOptimized /\ result'.execution_mode # "optimized")]_vars

-----------------------------------------------------------------------------
\* TrustManager.revoke_trust: nothing happens for a hash without a record
revoke_trust(w, code_hash, reason) ==
    IF code_hash \in DOMAIN w.trust_scores
    THEN save_trust_data(
            [w EXCEPT !.trust_scores[code_hash] = reset_trust(@, reason)])
    ELSE w

(* Eligibility harness: is_trusted_for_optimization on a trust manager      *)
(* holding one record                                                       *)

MaxCount == 5
Scores == {0, 99, 100, 101, 1000}
Thresholds == {0, 100, 1000}
Times == {1, 2}

\* the records a trust manager can hold for a hash: counters that add up,
\* timestamps set exactly when the counted event has happened (the wall clock
\* may have been set back between a violation and a later run)
TrustRecords ==
    {[NewTrustScore EXCEPT !.current_score = score,
                           !.execution_count = count,
                           !.successful_executions = successes,
                           !.violation_count = count - successes,
                           !.last_execution = IF count = 0 THEN NoTime ELSE executed,
                           !.first_execution = IF count = 0 THEN NoTime ELSE 1,
                           !.last_violation = IF count = successes THEN NoTime
                                              ELSE violated] :
        score \in Scores, count \in 0..MaxCount, successes \in 0..MaxCount,
        executed \in Times, violated \in Times}

InitElig ==
    /\ input \in {ts \in TrustRecords :
                    ts.successful_executions <= ts.execution_count}
    /\ trust_scores = (input_hash :> input)
    /\ trust_threshold \in Thresholds
    /\ optimization_enabled \in BOOLEAN
    /\ trust_file = <<>>
    /\ cache = EmptyFunction
    /\ cache_stats = NewCacheStats(100)
    /\ monitor = NewMonitor
    /\ rollback = NewRollbackHandler
    /\ pipeline = NewPipeline
    /\ result = NoResult
    /\ now = 3

\* trust_manager.is_trusted_for_optimization(code_hash)
IsTrusted(code_hash) ==
    /\ result.kind = "none"
    /\ result' = [kind |-> "eligibility", code_hash |-> code_hash,
                  value |-> is_trusted_for_optimization(World, code_hash)]
    /\ trust_scores' = IF optimization_enabled
                       THEN get_trust_score(trust_scores, code_hash)
                       ELSE trust_scores
    /\ UNCHANGED <<trust_threshold, optimization_enabled, trust_file, cache,
                   cache_stats, monitor, rollback, pipeline, now, input>>

NextElig == \E code_hash \in {input_hash, "hash_B"} : IsTrusted(code_hash)

SpecElig == InitElig /\ [][NextElig]_vars

\* the five conditions of eligibility, on the record of code_hash
AllConditionsHold(code_hash) ==
    LET ts == trust_scores[code_hash]
    IN  /\ ts.current_score >= trust_threshold
        /\ ts.execution_count >= 3
        /\ 10 * ts.successful_executions >= 8 * ts.execution_count
        /\ ~(ts.last_violation # NoTime /\ ts.last_violation > ts.last_execution)
        /\ optimization_enabled

\* C6: is_trusted_for_optimization(H) returns true exactly when
\* current_score >= trust_threshold, execution_count >= 3,
\* successful_executions / execution_count >= 0.8, last_violation is not more
\* recent than last_execution, and optimization is enabled.
C6_TrustedIffAllConditions ==
    result.kind = "eligibility" =>
        (result.value <=>
            /\ result.code_hash \in DOMAIN trust_scores
            /\ AllConditionsHold(result.code_hash))

\* a record with a violation in its past is found trusted
C6_Witness ==
    /\ result.kind = "eligibility"
    /\ result.value
    /\ input.violation_count > 0

-----------------------------------------------------------------------------
(* The rollback handler with the trust manager and the code cache, driven   *)
(* through their own methods                                                *)

MaxCalls == 4

HandlerHashes == {"hash_A", "hash_B"}
ViolationTypes == {"instruction_limit"}
RecordedViolations == {<<>>}

\* the components after construction; the handler's trust-update and
\* cache-clear callbacks and one observer (register_rollback_callback) are
\* registered, as _setup_integrations does, or none of them is
InitRollback ==
    /\ trust_scores = EmptyFunction
    /\ trust_threshold = 100
    /\ optimization_enabled = TRUE
    /\ trust_file = <<>>
    /\ cache = EmptyFunction
    /\ cache_stats = NewCacheStats(100)
    /\ monitor = NewMonitor
    /\ \E registered \in BOOLEAN :
          rollback = [NewRollbackHandler EXCEPT
                        !.trust_update_callback = registered,
                        !.cache_clear_callback = registered,
                        !.observers = IF registered THEN 1 ELSE 0]
    /\ pipeline = NewPipeline
    /\ result = NoResult
    /\ now = 1
    /\ input = None

\* cache.put(code_hash, ast, optimized_ast, flags)
CachePut(code_hash) ==
    /\ now <= MaxCalls
    /\ \E o \in {optimize(parse("A"))} :
          SetWorld(cache_put(World, code_hash, o.optimized_ast,
                             o.optimization_flags, now))
    /\ result' = [kind |-> "put", code_hash |-> code_hash]
    /\ now' = now + 1
    /\ UNCHANGED <<monitor, input>>

\* trust_manager.update_trust(code_hash, metrics, violations)
UpdateTrust(code_hash, violations) ==
    /\ now <= MaxCalls
    /\ SetWorld(update_trust(World, code_hash, NewMetrics, violations, now))
    /\ result' = [kind |-> "update_trust", code_hash |-> code_hash,
                  violations |-> violations]
    /\ now' = now + 1
    /\ UNCHANGED <<monitor, input>>

\* rollback_handler.trigger_rollback(violation_type, code_hash, ...); the
\* call returns the event it recorded (<<event>>), or None (<<>>) when it
\* recorded none
TriggerRollback(code_hash, violation_type) ==
    /\ now <= MaxCalls
    /\ \E before \in {get_trust_score(trust_scores, code_hash)[code_hash]} :
          SetWorld(trigger_rollback(World, violation_type, code_hash,
                                    <<violation_type>>, before.current_score, now))
    /\ result' = [kind |-> "trigger_rollback", code_hash |-> code_hash,
                  returned |-> IF rollback'.total_rollbacks > rollback.total_rollbacks
                               THEN <<rollback'.rollback_history[
                                          Len(rollback'.rollback_history)]>>
                               ELSE <<>>,
                  enabled |-> rollback.rollback_enabled,
                  revoking |-> rollback.auto_trust_revocation,
                  registered |-> rollback.trust_update_callback
                                 /\ rollback.cache_clear_callback,
                  was_cached |-> code_hash \in DOMAIN cache,
                  score_before |-> IF code_hash \in DOMAIN trust_scores
                                   THEN trust_scores[code_hash].current_score
                                   ELSE 0]
    /\ now' = now + 1
    /\ UNCHANGED <<monitor, input>>

\* RollbackHandler.set_auto_trust_revocation
set_auto_trust_revocation(w, enabled) ==
    [w EXCEPT !.rollback.auto_trust_revocation = enabled]

\* rollback_handler.enable_rollback(enabled)
EnableRollback(enabled) ==
    /\ SetWorld(enable_rollback(World, enabled))
    /\ result' = [kind |-> "enable_rollback"]
    /\ UNCHANGED <<monitor, now, input>>

\* rollback_handler.set_auto_trust_revocation(enabled)
SetAutoTrustRevocation(enabled) ==
    /\ SetWorld(set_auto_trust_revocation(World, enabled))
    /\ result' = [kind |-> "set_auto_trust_revocation"]
    /\ UNCHANGED <<monitor, now, input>>

NextRollback ==
    \/ \E code_hash \in HandlerHashes : CachePut(code_hash)
    \/ \E code_hash \in HandlerHashes, violations \in RecordedViolations :
          UpdateTrust(code_hash, violations)
    \/ \E code_hash \in HandlerHashes, violation_type \in ViolationTypes :
          TriggerRollback(code_hash, violation_type)
    \/ \E enabled \in BOOLEAN : EnableRollback(enabled)
    \/ \E enabled \in BOOLEAN : SetAutoTrustRevocation(enabled)

SpecRollback == InitRollback /\ [][NextRollback]_vars

\* the step is a trigger_rollback call for code_hash
IsTriggerFor(code_hash) ==
    /\ now' = now + 1
    /\ result'.kind = "trigger_rollback"
    /\ result'.code_hash = code_hash

\* the call removed the cache entry of code_hash and left its score at 0
ClearedAndRevoked(code_hash) ==
    /\ code_hash \notin DOMAIN cache'
    /\ code_hash \in DOMAIN trust_scores'
    /\ trust_scores'[code_hash].current_score = 0

\* the trust record and the cache entry of other are what they were
OtherHashUntouched(other) ==
    /\ (other \in DOMAIN trust_scores') = (other \in DOMAIN trust_scores)
    /\ other \in DOMAIN trust_scores => trust_scores'[other] = trust_scores[other]
    /\ (other \in DOMAIN cache') = (other \in DOMAIN cache)
    /\ other \in DOMAIN cache => cache'[other] = cache[other]

\* C8 as stated: a rollback triggered for code hash H on an enabled handler
\* with the cache-clear and trust-revocation callbacks registered removes H's
\* cache entry, sets H's trust score to 0, and leaves the trust record and
\* the cache entry of every other hash unchanged.
C8_RollbackClearsAndRevokes ==
    [][\A H \in HandlerHashes :
          (/\ IsTriggerFor(H)
           /\ rollback.rollback_enabled
           /\ rollback.cache_clear_callback
           /\ rollback.trust_update_callback)
          => /\ ClearedAndRevoked(H)
             /\ \A H2 \in HandlerHashes \ {H} : OtherHashUntouched(H2)]_vars

\* C8 amended: a rollback triggered for code hash H on an enabled handler
\* with both callbacks registered AND automatic trust revocation switched on
\* removes H's cache entry and sets H's trust score to 0; whatever the
\* handler's switches, the trust record and the cache entry of every other
\* hash are left unchanged.
C8_RollbackClearsAndRevokesWhenRevoking ==
    [][\A H \in HandlerHashes :
          IsTriggerFor(H)
          => /\ (/\ rollback.rollback_enabled
                 /\ rollback.cache_clear_callback
                 /\ rollback.trust_update_callback
                 /\ rollback.auto_trust_revocation) => ClearedAndRevoked(H)
             /\ \A H2 \in HandlerHashes \ {H} : OtherHashUntouched(H2)]_vars

\* a rollback has just been triggered, with everything switched on, for a
\* hash that was cached with a positive score, while another hash holds a
\* cache entry or a trust record with a positive score
C8_Witness ==
    /\ result.kind = "trigger_rollback"
    /\ result.enabled /\ result.revoking /\ result.registered
    /\ result.was_cached
    /\ result.score_before > 0
    /\ result.code_hash \notin DOMAIN cache
    /\ trust_scores[result.code_hash].current_score = 0
    /\ \E H2 \in HandlerHashes \ {result.code_hash} :
          \/ H2 \in DOMAIN cache
          \/ /\ H2 \in DOMAIN trust_scores
             /\ trust_scores[H2].current_score > 0

-----------------------------------------------------------------------------
(* The monitor wired to the rollback handler.  The components are built as  *)
(* AegisExecutionPipeline.__init__ builds them; the only call of            *)
(* trigger_rollback in the package is the closure _setup_integrations       *)
(* registers on the monitor, so rollbacks here come from monitored runs.    *)

MaxMonitorCalls == 3

MonitoredSources == {"A", "F"}
MonitorModes == {"sandboxed", "optimized"}
MonitorHashes == {None, "hash_A"}

\* RuntimeMonitor(), RollbackHandler(), TrustManager(), CodeCache() and a
\* violation threshold set on the monitor
InitMonitor ==
    /\ trust_scores = EmptyFunction
    /\ trust_threshold = 100
    /\ optimization_enabled = TRUE
    /\ trust_file = <<>>
    /\ cache = EmptyFunction
    /\ cache_stats = NewCacheStats(100)
    /\ \E threshold \in ViolationThresholds :
          monitor = set_violation_threshold(NewMonitor, threshold)
    /\ rollback = NewRollbackHandler
    /\ pipeline = NewPipeline
    /\ result = NoResult
    /\ now = 1
    /\ input = None

\* AegisExecutionPipeline._setup_integrations
SetupIntegrations(threshold, violation_threshold) ==
    /\ SetWorld([set_trust_threshold(World, threshold) EXCEPT
                    !.rollback.trust_update_callback = TRUE,
                    !.rollback.cache_clear_callback = TRUE])
    /\ monitor' = [set_violation_threshold(monitor, violation_threshold)
                     EXCEPT !.rollback_callback = TRUE]
    /\ UNCHANGED <<result, now, input>>

\* monitor.set_execution_mode(mode, code_hash)
SetExecutionMode(mode, code_hash) ==
    /\ monitor' = set_execution_mode(monitor, mode, code_hash)
    /\ UNCHANGED <<trustVars, cacheVars, rollback, pipeline, result, now, input>>

\* SandboxedInterpreter(monitor).execute(ast): one run under the monitor,
\* with the rollback-callback calls its detections make
MonitoredRun(source) ==
    /\ now <= MaxMonitorCalls
    /\ \E run \in {execute(parse(source), monitor)} :
          /\ SetWorld(handle_detections(World, monitor, run.detections, 1, now))
          /\ monitor' = monitor_after(monitor, run, "fast")
          /\ result' = [kind |-> "monitored_run", source |-> source,
                        run_status |-> run.status,
                        violations |-> run.violations_detected,
                        detections |-> Len(run.detections),
                        callback_calls |-> callback_calls(monitor, run),
                        mode |-> monitor.current_execution_mode,
                        code_hash |-> monitor.current_code_hash,
                        registered |-> monitor.rollback_callback,
                        was_cached |-> monitor.current_code_hash \in DOMAIN cache,
                        score_before |->
                            IF monitor.current_code_hash \in DOMAIN trust_scores
                            THEN trust_scores[monitor.current_code_hash].current_score
                            ELSE 0]
    /\ now' = now + 1
    /\ input' = input

NextMonitor ==
    \/ \E violation_threshold \in ViolationThresholds :
          SetupIntegrations(100, violation_threshold)
    \/ \E mode \in MonitorModes, code_hash \in MonitorHashes :
          SetExecutionMode(mode, code_hash)
    \/ \E source \in MonitoredSources : MonitoredRun(source)
    \/ \E code_hash \in MonitorHashes \ {None} :
          now <= MaxMonitorCalls /\ CachePut(code_hash)
    \/ \E code_hash \in MonitorHashes \ {None}, violations \in RecordedViolations :
          now <= MaxMonitorCalls /\ UpdateTrust(code_hash, violations)
    \/ \E enabled \in BOOLEAN : EnableRollback(enabled)

SpecMonitor == InitMonitor /\ [][NextMonitor]_vars

\* the step appended a RollbackEvent, cleared a cache entry, or revoked the
\* trust of some hash (a reset entry was added to its trust history)
RollbackEffect ==
    \/ rollback'.total_rollbacks > rollback.total_rollbacks
    \/ Len(rollback'.rollback_history) > Len(rollback.rollback_history)
    \/ \E h \in DOMAIN cache : h \notin DOMAIN cache'
    \/ \E h \in DOMAIN trust_scores' :
          /\ Len(trust_scores'[h].trust_history) > 0
          /\ trust_scores'[h].trust_history[Len(trust_scores'[h].trust_history)].reset
          /\ \/ h \notin DOMAIN trust_scores
             \/ trust_scores[h].trust_history # trust_scores'[h].trust_history

\* C9: rollback effects (a RollbackEvent appended, a cache entry cleared,
\* trust revoked to 0) occur only in a step that is a run ending in a security
\* violation while the mode set on the monitor is optimized (should_rollback
\* holds of it); a violation in a sandboxed run, and a run that ends in an
\* ordinary fault or normally, in either mode, has no rollback effect.
C9_RollbackOnlyFromOptimizedViolation ==
    [][RollbackEffect =>
          /\ now' = now + 1
          /\ result'.kind = "monitored_run"
          /\ result'.run_status = "violation"
          /\ monitor.current_execution_mode = "optimized"
          /\ should_rollback(World, result'.violations,
                             monitor.current_execution_mode)]_vars

\* a run in optimized mode has just ended in a violation and was rolled back:
\* an event is recorded, the entry that was cached is gone and the score that
\* was positive is 0
C9_Witness ==
    /\ result.kind = "monitored_run"
    /\ result.run_status = "violation"
    /\ result.mode = "optimized"
    /\ rollback.total_rollbacks > 0
    /\ result.was_cached
    /\ result.code_hash \notin DOMAIN cache
    /\ result.score_before > 0
    /\ trust_scores[result.code_hash].current_score = 0

-----------------------------------------------------------------------------
(* The pipeline, continued: the monitor's mode during a run, the trust      *)
(* update after a run, runtime faults and static analysis.  In a result,    *)
(* monitor_mode and monitor_code_hash are the mode and the code hash set on  *)
(* the shared monitor while the executor ran.                                *)

\* C11: throughout every run the pipeline executes in optimized mode the
\* monitor's mode is optimized with that run's code hash, and throughout
\* every sandboxed run the monitor's mode is sandboxed.
C11_MonitorModeSetBeforeRun ==
    (result.kind = "returned" /\ result.run_status # "fault")
    => IF result.execution_mode = "optimized"
       THEN /\ result.monitor_mode = "optimized"
            /\ result.monitor_code_hash = result.code_hash
       ELSE result.monitor_mode = "sandboxed"

\* the trust record of code_hash in scores, a fresh one if there is none
RecordOf(scores, code_hash) ==
    IF code_hash \in DOMAIN scores THEN scores[code_hash] ELSE NewTrustScore

\* C12: every pipeline run that passes static analysis is followed by exactly
\* one trust update for its code hash: execution_count of that hash grows by
\* exactly one per run.
C12_OneTrustUpdatePerRun ==
    [][IsRun =>
        RecordOf(trust_scores', result'.code_hash).execution_count
            = RecordOf(trust_scores, result'.code_hash).execution_count + 1]_vars

\* what does hold: a run that ends normally or in a violation is followed by
\* exactly one trust update, and a run that ends in a runtime fault by none
TrustUpdateUnlessFault ==
    [][IsRun =>
        RecordOf(trust_scores', result'.code_hash).execution_count
            = RecordOf(trust_scores, result'.code_hash).execution_count
              + (IF result'.run_status = "fault" THEN 0 ELSE 1)]_vars

\* C13: when a program passes static analysis but fails at run time with a
\* division-by-zero fault, the result reports the failure and the trust
\* record of that code hash is updated with a violation: its score decreases
\* by 0.5, floored at 0.
C13_DivisionByZeroCountsAsViolation ==
    [][(IsRun /\ result'.error_message = "Division by zero") =>
        LET before == RecordOf(trust_scores, result'.code_hash)
            after == RecordOf(trust_scores', result'.code_hash)
        IN  /\ ~result'.success
            /\ after.violation_count = before.violation_count + 1
            /\ after.execution_count = before.execution_count + 1
            /\ after.current_score = Max(0, before.current_score - 50)]_vars

\* C14: if static analysis finds any error, execute returns a result in
\* terminal state failed (success false) that carries the error; the program
\* is never executed and no trust record, cache entry or rollback history is
\* changed.
C14_AnalysisErrorGivesFailedResult ==
    [][(pipeline'.total_executions = pipeline.total_executions + 1
        /\ ~analyze(parse(result'.source))) =>
        /\ result'.kind = "returned"
        /\ result'.execution_mode = "failed"
        /\ ~result'.success
        /\ result'.error_message # None
        /\ result'.run_status = None
        /\ UNCHANGED <<trust_scores, trust_file, cache, rollback, monitor>>]_vars

\* what does hold: a call of execute on a program that fails static analysis
\* raises the analysis error to the caller and changes nothing but the count
\* of calls
AnalysisErrorIsRaisedAndChangesNothing ==
    [][(pipeline'.total_executions = pipeline.total_executions + 1
        /\ ~analyze(parse(result'.source))) =>
        /\ result'.kind = "raised"
        /\ result'.run_status = None
        /\ UNCHANGED <<trust_scores, trust_file, cache, cache_stats, rollback,
                       monitor>>]_vars

\* C15: static analysis of the current parse passes before every execution,
\* in sandboxed and optimized mode alike and whether or not the optimized AST
\* is served from the cache: in no call of execute does an executor start (the
\* monitor is used, the optimized path is entered, or a run outcome is
\* reported) on a program whose analysis does not pass.
C15_AnalysisBeforeEveryExecution ==
    [][(/\ pipeline'.total_executions = pipeline.total_executions + 1
        /\ \/ result'.run_status # None
           \/ monitor' # monitor
           \/ cache' # cache
           \/ pipeline'.optimized_executions # pipeline.optimized_executions)
       => analyze(parse(result'.source))]_vars

\* an optimized run served from the cache has just returned, after a call
\* that was refused by the analysis
C15_Witness ==
    /\ result.kind = "returned"
    /\ result.execution_mode = "optimized"
    /\ result.metrics.cache_hit
    /\ analyze(parse(result.source))
    /\ pipeline.total_executions > Len(monitor.execution_history)

-----------------------------------------------------------------------------
(* Two trusted programs on one pipeline: a session that finds the trust     *)
(* file of an earlier session in which programs "A" and "B" were both run,  *)
(* with a code cache of one entry or of the default size                    *)

CacheSizes == {1, 100}

\* one run of "A" and one of "B" in an earlier session, at times 2t-1 and 2t
run_both_in_session(p, t) ==
    CHOOSE q \in
        {[w |-> b.w, monitor |-> b.monitor] :
            b \in {pipeline_execute(a.w, a.monitor, "B", "fast", 2 * t) :
                      a \in {pipeline_execute(p.w, p.monitor, "A", "fast",
                                               2 * t - 1)}}} : TRUE

RECURSIVE prior_session_both(_)
\* the pipeline of an earlier session after k runs of each program
prior_session_both(k) ==
    IF k = 0
    THEN new_pipeline(<<>>, 100, default_violation_threshold, 100)
    ELSE CHOOSE q \in {run_both_in_session(p, k) :
                            p \in {prior_session_both(k - 1)}} : TRUE

InitIsolation ==
    /\ \E p \in {new_pipeline(prior_session_both(PriorRuns).w.trust_file,
                               cache_size, default_violation_threshold, 100) :
                    cache_size \in CacheSizes} :
              /\ trust_scores = p.w.trust_scores
              /\ trust_threshold = p.w.trust_threshold
              /\ optimization_enabled = p.w.optimization_enabled
              /\ trust_file = p.w.trust_file
              /\ cache = p.w.cache
              /\ cache_stats = p.w.cache_stats
              /\ rollback = p.w.rollback
              /\ pipeline = p.w.pipeline
              /\ monitor = p.monitor
    /\ result = NoResult
    /\ now = 2 * PriorRuns + 1
    /\ input = None

NextIsolation == \E r \in Runs : Execute(r[1], r[2])

SpecIsolation == InitIsolation /\ [][NextIsolation]_vars

\* the trust record of code_hash is what it was before the step
TrustRecordUnchanged(code_hash) ==
    /\ (code_hash \in DOMAIN trust_scores') = (code_hash \in DOMAIN trust_scores)
    /\ code_hash \in DOMAIN trust_scores =>
            trust_scores'[code_hash] = trust_scores[code_hash]

\* the cache entry of code_hash is what it was before the step
CacheEntryUnchanged(code_hash) ==
    /\ (code_hash \in DOMAIN cache') = (code_hash \in DOMAIN cache)
    /\ code_hash \in DOMAIN cache => cache'[code_hash] = cache[code_hash]

\* the step inserted the entry of code_hash into a full cache
InsertedIntoFullCache(code_hash) ==
    /\ Cardinality(DOMAIN cache) >= cache_stats.max_size
    /\ code_hash \notin DOMAIN cache
    /\ code_hash \in DOMAIN cache'

\* C16 as stated: executing one program changes neither the trust record nor
\* the cache entry of any other program (records and entries are kept per
\* code hash, and distinct sources have distinct hashes).
C16_OtherProgramsUntouched ==
    [][pipeline'.total_executions = pipeline.total_executions + 1 =>
        \A other \in Sources \ {result'.source} :
            /\ get_code_hash(other) # get_code_hash(result'.source)
            /\ TrustRecordUnchanged(get_code_hash(other))
            /\ CacheEntryUnchanged(get_code_hash(other))]_vars

\* C16 amended: executing one program never changes the trust record of
\* another program, and changes the cache entry of another program only by
\* evicting it when the executed program's entry is inserted into a full
\* cache.
C16_OtherProgramsUntouchedUnlessEvicted ==
    [][pipeline'.total_executions = pipeline.total_executions + 1 =>
        \A other \in Sources \ {result'.source} :
            /\ get_code_hash(other) # get_code_hash(result'.source)
            /\ TrustRecordUnchanged(get_code_hash(other))
            /\ \/ CacheEntryUnchanged(get_code_hash(other))
               \/ /\ InsertedIntoFullCache(get_code_hash(result'.source))
                  /\ get_code_hash(other) \in DOMAIN cache
                  /\ get_code_hash(other) \notin DOMAIN cache']_vars

\* an optimized run of one program has just returned while another program
\* holds a cache entry and a trust record
C16_Witness ==
    /\ result.kind = "returned"
    /\ result.execution_mode = "optimized"
    /\ result.code_hash \in DOMAIN cache
    /\ \E other \in Sources \ {result.source} :
          /\ get_code_hash(other) \in DOMAIN cache
          /\ get_code_hash(other) \in DOMAIN trust_scores
          /\ trust_scores[get_code_hash(other)].current_score > 0

-----------------------------------------------------------------------------
(* The trust manager on its own: update_trust and                           *)
(* revoke_trust_for_violation called on a manager that holds one record     *)
(* loaded from its trust file                                               *)

TrustHashes == {input_hash, "hash_B"}
TrustViolations == {<<>>, <<"instruction_limit">>}

InitTrust ==
    /\ input \in {ts \in TrustRecords :
                    ts.successful_executions <= ts.execution_count}
    /\ trust_scores = (input_hash :> input)
    /\ trust_threshold = 100
    /\ optimization_enabled = TRUE
    /\ trust_file = <<>>
    /\ cache = EmptyFunction
    /\ cache_stats = NewCacheStats(100)
    /\ monitor = NewMonitor
    /\ rollback = NewRollbackHandler
    /\ pipeline = NewPipeline
    /\ result = NoResult
    /\ now = 3

\* trust_manager.revoke_trust_for_violation(code_hash, violation_type)
RevokeTrust(code_hash, violation_type) ==
    /\ now <= MaxCalls
    /\ SetWorld(revoke_trust_for_violation(World, code_hash, violation_type))
    /\ result' = [kind |-> "revoke_trust", code_hash |-> code_hash]
    /\ now' = now + 1
    /\ UNCHANGED <<monitor, input>>

\* trust_manager.revoke_trust(code_hash)
ManualRevoke(code_hash) ==
    /\ now <= MaxCalls
    /\ SetWorld(revoke_trust(World, code_hash, "manual_revocation"))
    /\ result' = [kind |-> "manual_revocation", code_hash |-> code_hash]
    /\ now' = now + 1
    /\ UNCHANGED <<monitor, input>>

NextTrust ==
    \/ \E code_hash \in TrustHashes, violations \in TrustViolations :
            UpdateTrust(code_hash, violations)
    \/ \E code_hash \in TrustHashes, violation_type \in ViolationTypes :
            RevokeTrust(code_hash, violation_type)
    \/ \E code_hash \in TrustHashes : ManualRevoke(code_hash)

SpecTrust == InitTrust /\ [][NextTrust]_vars

\* the step is an update_trust call with, or without, violations
IsTrustUpdate(with_violations) ==
    /\ now' = now + 1
    /\ result'.kind = "update_trust"
    /\ (result'.violations # <<>>) = with_violations

\* C17: a run of a code hash without violations never lowers that hash's
\* current_score, so the score never decreases across consecutive runs
\* without violations.
C17_ScoreNeverDecreasesWithoutViolation ==
    [][IsTrustUpdate(FALSE) =>
        RecordOf(trust_scores', result'.code_hash).current_score
            >= RecordOf(trust_scores, result'.code_hash).current_score]_vars

\* two consecutive updates without violations, the second of which raised
\* the score (score_before of an entry is the score its own update left)
C17_Witness ==
    /\ result.kind = "update_trust"
    /\ result.violations = <<>>
    /\ \E h \in {trust_scores[result.code_hash].trust_history} :
          /\ Len(h) >= 2
          /\ ~h[Len(h)].had_violations
          /\ ~h[Len(h) - 1].had_violations
          /\ ~h[Len(h)].reset
          /\ ~h[Len(h) - 1].reset
          /\ h[Len(h)].score_after > h[Len(h) - 1].score_before

\* C18 as stated: right after a run of a code hash that had a violation, that
\* hash's current_score is strictly lower than it was before the run.
C18_ScoreStrictlyLowerAfterViolation ==
    [][IsTrustUpdate(TRUE) =>
        RecordOf(trust_scores', result'.code_hash).current_score
            < RecordOf(trust_scores, result'.code_hash).current_score]_vars

\* C18 amended: right after a run of a code hash that had a violation, that
\* hash's current_score is strictly lower than before the run, unless it was
\* already 0.0 before the run, in which case it is still 0.0.
C18_ScoreLowerAfterViolationUnlessZero ==
    [][IsTrustUpdate(TRUE) =>
        \E before \in {RecordOf(trust_scores, result'.code_hash).current_score},
           after \in {RecordOf(trust_scores', result'.code_hash).current_score} :
            IF before = 0 THEN after = 0 ELSE after < before]_vars

\* an update with a violation has just lowered a positive score to a score
\* that is still positive
C18_Witness ==
    /\ result.kind = "update_trust"
    /\ result.violations # <<>>
    /\ input.current_score > trust_scores[result.code_hash].current_score
    /\ trust_scores[result.code_hash].current_score > 0
    /\ result.code_hash = input_hash

\* C19: after any sequence of trust updates and revocations every trust
\* record's current_score lies within [0.0, 10.0].
C19_ScoreWithinBounds ==
    \A code_hash \in DOMAIN trust_scores :
        /\ trust_scores[code_hash].current_score >= 0
        /\ trust_scores[code_hash].current_score <= 1000

\* a record at the cap after a successful update, next to a record at the
\* floor after a revocation or a violation
C19_Witness ==
    /\ result.kind \in {"update_trust", "revoke_trust"}
    /\ \E a \in DOMAIN trust_scores, b \in DOMAIN trust_scores :
          /\ trust_scores[a].current_score = 1000
          /\ trust_scores[a].successful_executions > input.successful_executions
          /\ trust_scores[b].current_score = 0
          /\ trust_scores[b].trust_history # <<>>

\* C20: after every trust update the updated record's successful_executions
\* and violation_count add up to its execution_count.
C20_CountersAddUp ==
    result.kind = "update_trust" =>
        \E ts \in {trust_scores[result.code_hash]} :
            ts.successful_executions + ts.violation_count = ts.execution_count

\* an update has just been counted on a record that holds both a success and
\* a violation counted by earlier updates of the same manager
C20_Witness ==
    /\ result.kind = "update_trust"
    /\ \E ts \in {trust_scores[result.code_hash]} :
          /\ ts.successful_executions >= 1
          /\ ts.violation_count >= 1
          /\ Len(ts.trust_history) >= 2

-----------------------------------------------------------------------------
(* The runtime monitor on its own: one recorded operation per step.  result *)
(* holds the metrics of the run in progress (st) and the metrics before the *)
(* last call (prev).                                                        *)

MaxRecorded == 6

RecordThresholds == {0, 1, 2, default_violation_threshold}
ArithmeticResults == {1, max_integer + 1}

InitRecord ==
    /\ trust_scores = EmptyFunction
    /\ trust_threshold = 100
    /\ optimization_enabled = TRUE
    /\ trust_file = <<>>
    /\ cache = EmptyFunction
    /\ cache_stats = NewCacheStats(100)
    /\ \E threshold \in RecordThresholds :
          monitor = set_violation_threshold(NewMonitor, threshold)
    /\ rollback = NewRollbackHandler
    /\ pipeline = NewPipeline
    /\ result = NoResult
    /\ now = 1
    /\ input = None

\* the step changes the monitored run only
RecordFrame ==
    UNCHANGED <<trust_scores, trust_threshold, optimization_enabled, trust_file,
                cache, cache_stats, rollback, pipeline, now, input>>

\* monitor.start_monitoring(context): new metrics, then the "monitor_start"
\* operation
StartMonitoring ==
    /\ result.kind # "monitoring"
    /\ result' = [kind |-> "monitoring", op |-> "monitor_start",
                  prev |-> NewRun, st |-> record_operation(NewRun, monitor)]
    /\ monitor' = [monitor EXCEPT !.is_monitoring = TRUE]
    /\ RecordFrame

\* monitor.record_operation(operation, details) while monitoring
RecordOperation ==
    /\ result.kind = "monitoring"
    /\ result.st.instruction_count < MaxRecorded
    /\ result' = [kind |-> "monitoring", op |-> "operation",
                  prev |-> result.st, st |-> record_operation(result.st, monitor)]
    /\ UNCHANGED monitor
    /\ RecordFrame

\* monitor.record_arithmetic_operation(operator, left, right, value); the
\* call starts afresh whatever an earlier call raised
RecordArithmeticOperation(value) ==
    /\ result.kind = "monitoring"
    /\ result.st.instruction_count < MaxRecorded
    /\ result' = [kind |-> "monitoring", op |-> "arithmetic",
                  prev |-> result.st,
                  st |-> record_arithmetic_operation(
                            [result.st EXCEPT !.status = "run"], monitor, value)]
    /\ UNCHANGED monitor
    /\ RecordFrame

\* monitor.stop_monitoring(): the "monitor_stop" operation, then the archive
\* (not reached when the operation raises)
StopMonitoring ==
    /\ result.kind = "monitoring"
    /\ result.st.instruction_count < MaxRecorded
    /\ \E s \in {stop_monitoring(result.st, monitor)} :
          /\ result' = [kind |-> IF s.archived THEN "stopped" ELSE "monitoring",
                        op |-> "monitor_stop", prev |-> result.st, st |-> s]
          /\ monitor' = [monitor EXCEPT !.is_monitoring = ~s.archived]
    /\ RecordFrame

NextRecord ==
    \/ StartMonitoring
    \/ RecordOperation
    \/ \E value \in ArithmeticResults : RecordArithmeticOperation(value)
    \/ StopMonitoring

SpecRecord == InitRecord /\ [][NextRecord]_vars

\* the last recorded operation raised an instruction_limit violation
RaisedInstructionLimit ==
    /\ Len(result.st.detections) > Len(result.prev.detections)
    /\ \E k \in (Len(result.prev.detections) + 1)..Len(result.st.detections) :
          \E j \in 1..Len(result.st.detections[k]) :
              result.st.detections[k][j] = "instruction_limit"

\* C21: every recorded operation of a monitored run counts one instruction
\* and is followed by the violation check: the operation raises an
\* instruction_limit violation exactly when instruction_count is then above
\* violation_threshold, so the violation is raised by the first operation
\* that takes the count over the threshold and never at or below it.
C21_InstructionLimitCheckedAfterEveryOperation ==
    result.kind \in {"monitoring", "stopped"} =>
        /\ result.st.instruction_count = result.prev.instruction_count + 1
        /\ RaisedInstructionLimit
              <=> result.st.instruction_count > monitor.violation_threshold

\* an operation has just taken the count from the threshold to one above it
\* and raised the first violation of the run
C21_Witness ==
    /\ result.kind = "monitoring"
    /\ result.op = "operation"
    /\ monitor.violation_threshold = 2
    /\ result.prev.instruction_count = monitor.violation_threshold
    /\ result.prev.detections = <<>>
    /\ RaisedInstructionLimit
    /\ result.st.raised = "instruction_limit"

-----------------------------------------------------------------------------
(* The code cache on its own: put, get, clear and cleanup_expired on a      *)
(* cache built with a given max_size and max_age_hours                      *)

CacheMaxSizes == {0, 1, 2}
CacheMaxAges == {0, 1, max_age}
CacheHashes == {"hash_A", "hash_B", "hash_C"}

InitCache ==
    /\ trust_scores = EmptyFunction
    /\ trust_threshold = 100
    /\ optimization_enabled = TRUE
    /\ trust_file = <<>>
    /\ cache = EmptyFunction
    /\ \E size \in CacheMaxSizes, age \in CacheMaxAges :
          cache_stats = [NewCacheStats(size) EXCEPT !.max_age = age]
    /\ monitor = NewMonitor
    /\ rollback = NewRollbackHandler
    /\ pipeline = NewPipeline
    /\ result = NoResult
    /\ now = 1
    /\ input = None

\* cache.get(code_hash)
CacheGet(code_hash) ==
    /\ now <= MaxCalls
    /\ \E g \in {cache_get(World, code_hash, now)} :
          /\ SetWorld(g.w)
          /\ result' = [kind |-> "get", code_hash |-> code_hash, hit |-> g.hit,
                        returned |-> IF g.hit THEN g.w.cache[code_hash] ELSE None]
    /\ now' = now + 1
    /\ UNCHANGED <<monitor, input>>

\* cache.clear(code_hash)
CacheClear(code_hash) ==
    /\ now <= MaxCalls
    /\ SetWorld(cache_clear(World, code_hash))
    /\ result' = [kind |-> "clear", code_hash |-> code_hash]
    /\ now' = now + 1
    /\ UNCHANGED <<monitor, input>>

\* cache.cleanup_expired()
CleanupExpired ==
    /\ now <= MaxCalls
    /\ SetWorld(cleanup_expired(World, now))
    /\ result' = [kind |-> "cleanup", code_hash |-> None]
    /\ now' = now + 1
    /\ UNCHANGED <<monitor, input>>

NextCache ==
    \/ \E code_hash \in CacheHashes : CachePut(code_hash)
    \/ \E code_hash \in CacheHashes : CacheGet(code_hash)
    \/ \E code_hash \in CacheHashes : CacheClear(code_hash)
    \/ CleanupExpired

SpecCache == InitCache /\ [][NextCache]_vars

\* the step is a put of a hash that is not cached into a cache that holds
\* max_size entries
IsPutBeyondCapacity ==
    /\ now' = now + 1
    /\ result'.kind = "put"
    /\ result'.code_hash \notin DOMAIN cache
    /\ Cardinality(DOMAIN cache) = cache_stats.max_size

\* the step removed exactly one entry, one with the oldest last_accessed, and
\* inserted the entry of code_hash
EvictedOldestFor(code_hash) ==
    \E victim \in DOMAIN cache :
        /\ \A h \in DOMAIN cache :
              cache[victim].last_accessed <= cache[h].last_accessed
        /\ DOMAIN cache' = ((DOMAIN cache) \ {victim}) \cup {code_hash}
        /\ \A h \in (DOMAIN cache) \ {victim} : cache'[h] = cache[h]
        /\ cache_stats'.evictions = cache_stats.evictions + 1

\* C22: the put that inserts the (max_size + 1)-th distinct code hash evicts
\* exactly one entry, and that entry is one with the oldest last_accessed
\* time.
C22_PutBeyondCapacityEvictsOldest ==
    [][IsPutBeyondCapacity => EvictedOldestFor(result'.code_hash)]_vars

\* the same for a cache built with max_size >= 1
PutBeyondCapacityEvictsOldestWhenPositive ==
    [][(IsPutBeyondCapacity /\ cache_stats.max_size >= 1)
            => EvictedOldestFor(result'.code_hash)]_vars

\* the step is a get of the hash whose put was the call before it
IsGetRightAfterPut ==
    /\ now' = now + 1
    /\ result.kind = "put"
    /\ result'.kind = "get"
    /\ result'.code_hash = result.code_hash

\* the get returned the entry that was stored, marked as accessed
ReturnedStoredEntry ==
    /\ result'.hit
    /\ result'.code_hash \in DOMAIN cache'
    /\ result'.returned = cache'[result'.code_hash]
    /\ result'.returned = [cache[result'.code_hash] EXCEPT
                              !.last_accessed = now, !.access_count = @ + 1]

C24_CacheBoundedByMaxSize ==
    Cardinality(DOMAIN cache) <= cache_stats.max_size

\* the same for a cache built with max_size >= 1
CacheBoundedWhenMaxSizePositive ==
    cache_stats.max_size >= 1 => Cardinality(DOMAIN cache) <= cache_stats.max_size

-----------------------------------------------------------------------------
(* The pipeline, continued: what an optimized execution reports about the   *)
(* cache                                                                    *)

\* the cache holds an entry of code_hash that has not expired
HasValidEntry(code_hash) ==
    /\ code_hash \in DOMAIN cache
    /\ now - cache[code_hash].created_at <= cache_stats.max_age

\* the step is an optimized execution; it found a valid entry, kept it and
\* reports a hit, or found none, stored the optimizer's result and reports a
\* miss
HitOrMissReported ==
    \E code_hash \in {result'.code_hash} :
        IF HasValidEntry(code_hash)
        THEN /\ result'.metrics.cache_hit
             /\ cache_stats'.compilations = cache_stats.compilations
             /\ cache_stats'.cache_hits = cache_stats.cache_hits + 1
             /\ code_hash \in DOMAIN cache'
             /\ cache'[code_hash].optimized_ast = cache[code_hash].optimized_ast
        ELSE /\ ~result'.metrics.cache_hit
             /\ cache_stats'.compilations = cache_stats.compilations + 1
             /\ code_hash \in DOMAIN cache'
             /\ cache'[code_hash].optimized_ast
                    = optimize(parse(result'.source)).optimized_ast

\* C25: an optimized execution that finds no valid cache entry for its code
\* hash runs the optimizer, stores the result and reports cache_hit = false;
\* an optimized execution that finds the entry cached reuses the stored
\* optimized AST and reports cache_hit = true.
C25_CacheHitReportedWhileCached ==
    [][(IsRun /\ result'.execution_mode = "optimized") => HitOrMissReported]_vars

\* the same for the optimized executions that no security violation stopped
CacheHitReportedUnlessViolation ==
    [][(IsRun /\ result'.execution_mode = "optimized" /\ result'.violations = <<>>)
            => HitOrMissReported]_vars

-----------------------------------------------------------------------------
(* The trust manager, continued: revocation                                 *)

\* the step is a revocation, by revoke_trust or revoke_trust_for_violation,
\* of a hash that has a trust record
IsRevocationOfRecord ==
    /\ now' = now + 1
    /\ result'.kind \in {"manual_revocation", "revoke_trust"}
    /\ result'.code_hash \in DOMAIN trust_scores

-----------------------------------------------------------------------------
(* The trust manager and its trust file: a manager built over a missing     *)
(* file, and what a manager built later over the same file would load       *)

InitPersist ==
    /\ \E m \in {load_trust_data(<<>>)} :
          /\ trust_scores = m.trust_scores
          /\ trust_threshold = m.trust_threshold
          /\ optimization_enabled = m.optimization_enabled
    /\ trust_file = <<>>
    /\ cache = EmptyFunction
    /\ cache_stats = NewCacheStats(100)
    /\ monitor = NewMonitor
    /\ rollback = NewRollbackHandler
    /\ pipeline = NewPipeline
    /\ result = NoResult
    /\ now = 1
    /\ input = None

\* trust_manager.set_trust_threshold(threshold)
SetTrustThreshold(threshold) ==
    /\ now <= MaxCalls
    /\ SetWorld(set_trust_threshold(World, threshold))
    /\ result' = [kind |-> "set_trust_threshold", code_hash |-> None]
    /\ now' = now + 1
    /\ UNCHANGED <<monitor, input>>

\* trust_manager.enable_optimization(enabled)
EnableOptimization(enabled) ==
    /\ now <= MaxCalls
    /\ SetWorld(enable_optimization(World, enabled))
    /\ result' = [kind |-> "enable_optimization", code_hash |-> None]
    /\ now' = now + 1
    /\ UNCHANGED <<monitor, input>>

NextPersist ==
    \/ \E violations \in TrustViolations : UpdateTrust(input_hash, violations)
    \/ \E violation_type \in ViolationTypes : RevokeTrust(input_hash, violation_type)
    \/ ManualRevoke(input_hash)
    \/ \E threshold \in ConfiguredTrustThresholds : SetTrustThreshold(threshold)
    \/ \E enabled \in ConfiguredFlags : EnableOptimization(enabled)

SpecPersist == InitPersist /\ [][NextPersist]_vars

\* a TrustManager built now over the trust file would hold the scores,
\* counters and global settings this manager holds in memory
StoreMatchesMemory ==
    load_trust_data(trust_file) =
        [trust_scores |-> trust_scores, trust_threshold |-> trust_threshold,
         optimization_enabled |-> optimization_enabled]

\* C27: after every TrustManager mutation (trust update, revocation,
\* threshold change, optimization-flag change) a TrustManager created on the
\* same store observes the scores, counters and global settings held in
\* memory.
C27_EveryMutationWrittenThrough ==
    result.kind \in {"update_trust", "revoke_trust", "manual_revocation",
                     "set_trust_threshold", "enable_optimization"}
        => StoreMatchesMemory

\* the same for the mutations of trust records alone: updates, and
\* revocations that change a record
RecordMutationsWrittenThrough ==
    [][(/\ now' = now + 1
        /\ \/ result'.kind \in {"update_trust", "revoke_trust"}
           \/ /\ result'.kind = "manual_revocation"
              /\ result'.code_hash \in DOMAIN trust_scores)
            => StoreMatchesMemory']_vars

-----------------------------------------------------------------------------
(* The trust manager, continued: a record whose history is nearly full      *)

PriorUpdates == 49

RECURSIVE updated_manager(_)
\* a manager built over a missing file after k successful updates of
\* input_hash (all at time 0)
updated_manager(k) ==
    IF k = 0
    THEN [trust_scores |-> load_trust_data(<<>>).trust_scores,
          trust_threshold |-> load_trust_data(<<>>).trust_threshold,
          optimization_enabled |-> load_trust_data(<<>>).optimization_enabled,
          trust_file |-> <<>>]
    ELSE CHOOSE m \in {update_trust(w, input_hash, NewMetrics, <<>>, 0) :
                            w \in {updated_manager(k - 1)}} : TRUE

InitHistory ==
    /\ \E m \in {updated_manager(k) : k \in {PriorUpdates, PriorUpdates + 1}} :
          /\ trust_scores = m.trust_scores
          /\ trust_threshold = m.trust_threshold
          /\ optimization_enabled = m.optimization_enabled
          /\ trust_file = m.trust_file
    /\ cache = EmptyFunction
    /\ cache_stats = NewCacheStats(100)
    /\ monitor = NewMonitor
    /\ rollback = NewRollbackHandler
    /\ pipeline = NewPipeline
    /\ result = NoResult
    /\ now = 1
    /\ input = None

NextHistory ==
    \/ \E violations \in TrustViolations : UpdateTrust(input_hash, violations)
    \/ \E violation_type \in ViolationTypes : RevokeTrust(input_hash, violation_type)
    \/ ManualRevoke(input_hash)

SpecHistory == InitHistory /\ [][NextHistory]_vars

\* C30: after any sequence of trust updates and revocations a trust
\* record's history never holds more than 50 entries.
C30_HistoryAtMostFifty ==
    \A code_hash \in DOMAIN trust_scores :
        Len(trust_scores[code_hash].trust_history) <= 50

\* the same right after a trust update, which trims the history
HistoryAtMostFiftyAfterUpdate ==
    result.kind = "update_trust" =>
        Len(trust_scores[result.code_hash].trust_history) <= 50

-----------------------------------------------------------------------------
(* The rollback handler, continued: the enable flag                         *)

\* C28: while the rollback handler is disabled, trigger_rollback returns no
\* event and has no effect: no cache entry is cleared, no trust is revoked,
\* no event is appended to the history, no rollback counter changes and no
\* observer is notified.
C28_DisabledHandlerDoesNothing ==
    [][(/\ now' = now + 1
        /\ result'.kind = "trigger_rollback"
        /\ ~rollback.rollback_enabled)
            => /\ result'.returned = <<>>
               /\ UNCHANGED <<cache, cache_stats, trust_scores, trust_threshold,
                              optimization_enabled, trust_file, rollback,
                              monitor, pipeline>>]_vars

\* trigger_rollback has just been called on a disabled handler with its
\* callbacks and an observer registered, for a hash that is cached and has
\* a positive trust score
C28_Witness ==
    /\ result.kind = "trigger_rollback"
    /\ ~result.enabled
    /\ result.registered
    /\ rollback.observers >= 1
    /\ result.was_cached
    /\ result.score_before > 0
    /\ result.code_hash \in DOMAIN cache
    /\ trust_scores[result.code_hash].current_score = result.score_before

-----------------------------------------------------------------------------
(* The rollback handler, continued: an audit log that is nearly full        *)

PriorRollbacks == 99

\* a RollbackHandler() after construction; the clock starts PriorRollbacks
\* calls before time 1
InitAudit ==
    /\ trust_scores = EmptyFunction
    /\ trust_threshold = 100
    /\ optimization_enabled = TRUE
    /\ trust_file = <<>>
    /\ cache = EmptyFunction
    /\ cache_stats = NewCacheStats(100)
    /\ monitor = NewMonitor
    /\ rollback = NewRollbackHandler
    /\ pipeline = NewPipeline
    /\ result = NoResult
    /\ now = 1 - PriorRollbacks
    /\ input = None

\* the handler first records PriorRollbacks rollbacks of "hash_A", one per
\* tick up to time 0; from time 1 on every method is called freely
NextAudit ==
    \/ /\ now <= 0
       /\ TriggerRollback("hash_A", "instruction_limit")
    \/ /\ now > 0
       /\ \E code_hash \in HandlerHashes, violation_type \in ViolationTypes :
             TriggerRollback(code_hash, violation_type)
    \/ /\ now > 0
       /\ \E enabled \in BOOLEAN : EnableRollback(enabled)
    \/ /\ now > 0
       /\ \E enabled \in BOOLEAN : SetAutoTrustRevocation(enabled)

SpecAudit == InitAudit /\ [][NextAudit]_vars

\* the log after the step is the log before it followed by the returned
\* event, without as many of its oldest events as the cap requires
NewestKeptInOrder ==
    \E old \in {rollback.rollback_history}, new \in {rollback'.rollback_history} :
        /\ Len(new) = Min(Len(old) + 1, max_rollback_history)
        /\ new[Len(new)] = result'.returned[1]
        /\ \A i \in 1..(Len(new) - 1) : new[i] = old[i + Len(old) + 1 - Len(new)]

\* C29: the rollback audit log never holds more than its cap of 100 events;
\* when a new event would exceed the cap the oldest events are dropped and
\* the most recent ones are kept in their original order.
C29_AuditLogCapped ==
    [][/\ Len(rollback'.rollback_history) <= max_rollback_history
       /\ (now' = now + 1 /\ result'.kind = "trigger_rollback"
                /\ result'.returned # <<>>)
            => NewestKeptInOrder]_vars

\* a rollback has just been recorded in a full log: the log still holds 100
\* events, ends with the new one and has lost its oldest
C29_Witness ==
    /\ result.kind = "trigger_rollback"
    /\ result.returned # <<>>
    /\ rollback.total_rollbacks > max_rollback_history
    /\ Len(rollback.rollback_history) = max_rollback_history
    /\ rollback.rollback_history[max_rollback_history] = result.returned[1]
    /\ rollback.rollback_history[1].timestamp
            < rollback.rollback_history[2].timestamp

-----------------------------------------------------------------------------
(* The pipeline, continued: one program executed again and again by a new   *)
(* pipeline that finds no trust file                                        *)

MaxRepeats == 10

RepeatedSources == {"A", "B", "L"}

\* AegisExecutionPipeline() with its defaults (trust_threshold 1.0); input is
\* the program the session executes
InitRepeat ==
    /\ \E p \in {new_pipeline(<<>>, 100, default_violation_threshold, 100)} :
              /\ trust_scores = p.w.trust_scores
              /\ trust_threshold = p.w.trust_threshold
              /\ optimization_enabled = p.w.optimization_enabled
              /\ trust_file = p.w.trust_file
              /\ cache = p.w.cache
              /\ cache_stats = p.w.cache_stats
              /\ rollback = p.w.rollback
              /\ pipeline = p.w.pipeline
              /\ monitor = p.monitor
    /\ result = NoResult
    /\ now = 1
    /\ input \in RepeatedSources

\* pipeline.execute(input), the run taking execution_time
ExecuteAgain(execution_time) ==
    /\ pipeline.total_executions < MaxRepeats
    /\ \E r \in {pipeline_execute(World, monitor, input, execution_time, now)} :
          /\ SetWorld(r.w)
          /\ monitor' = r.monitor
          /\ result' = r.result
    /\ now' = now + 1
    /\ UNCHANGED input

NextRepeat == \E execution_time \in ExecutionTimes : ExecuteAgain(execution_time)

SpecRepeat == InitRepeat /\ [][NextRepeat]_vars

\* what the run of this step reports, n being its number in the session: runs
\* up to the 7th are sandboxed, an optimized run reports a speedup of at least
\* 2.0, and the output is that of the run before
RunReportsLifecycle ==
    /\ result'.success
    /\ pipeline'.total_executions <= 7 => result'.execution_mode = "sandboxed"
    /\ result'.execution_mode \in {"sandboxed", "optimized"}
    /\ result'.execution_mode = "optimized" => result'.metrics.speedup_factor >= 200
    /\ pipeline.total_executions >= 1 => result'.output = result.output

\* the sandboxed runs of the session's program record fewer than 100
\* instructions
RecordsUnderHundredInstructions ==
    \A i \in 1..Len(monitor'.execution_history) :
        monitor'.execution_history[i].instruction_count < 100

\* C31: with trust_threshold = 1.0 and no trust record, of 10 consecutive
\* executions of one successful program the early ones are sandboxed, the
\* run is optimized by the 8th to 9th, every later run is optimized with
\* speedup_factor >= 2.0, and all 10 outputs are the same.
C31_OptimizedByNinthRun ==
    [][IsRun => /\ RunReportsLifecycle
                /\ pipeline'.total_executions >= 9
                        => result'.execution_mode = "optimized"]_vars

\* C31 as it holds: the 9th run is optimized when the program's runs record
\* fewer than 100 instructions; whatever the program, the 10th run is
C31_OptimizedByNinthRunWhenSmall ==
    [][IsRun => /\ RunReportsLifecycle
                /\ (pipeline'.total_executions >= 9
                        /\ RecordsUnderHundredInstructions)
                        => result'.execution_mode = "optimized"
                /\ pipeline'.total_executions >= 10
                        => result'.execution_mode = "optimized"]_vars

\* ten runs done: the 9th and the 10th ran optimized after eight sandboxed
\* runs, one of them slow, of a program of fewer than 100 instructions
C31_Witness ==
    /\ pipeline.total_executions = 10
    /\ pipeline.optimized_executions = 2
    /\ result.execution_mode = "optimized"
    /\ result.metrics.speedup_factor >= 200
    /\ Len(monitor.execution_history) = 10
    /\ \E i \in 1..8 : monitor.execution_history[i].execution_time = "slow"
    /\ \A i \in 1..10 : monitor.execution_history[i].instruction_count < 100

-----------------------------------------------------------------------------
(* Properties of the trust manager, continued (specification SpecTrust) *)

\* C32: a run with a violation lowers the score by 0.5 plus 0.2 per prior
\* violation, i.e. by 0.5 + 0.2 * (violation_count - 1) with violation_count
\* counting this run's violation, and the result is floored at 0.0; the
\* policy's calculate_trust_decrement gives the same amount.
C32_PenaltyGrowsWithViolations ==
    [][IsTrustUpdate(TRUE) =>
        \E before \in {RecordOf(trust_scores, result'.code_hash)},
           after \in {RecordOf(trust_scores', result'.code_hash)} :
            /\ after.violation_count = before.violation_count + 1
            /\ after.current_score
                    = Max(0, before.current_score
                                - (50 + 20 * before.violation_count))
            /\ calculate_trust_decrement(after.violation_count)
                    = 50 + 20 * (after.violation_count - 1)]_vars

\* a third or later violation has just taken more than 0.5 off a score and
\* left it positive
C32_Witness ==
    /\ result.kind = "update_trust"
    /\ result.violations # <<>>
    /\ result.code_hash = input_hash
    /\ trust_scores[input_hash].violation_count >= 3
    /\ trust_scores[input_hash].current_score > 0
    /\ \E h \in {trust_scores[input_hash].trust_history} :
          /\ Len(h) >= 2
          /\ h[Len(h) - 1].score_before - h[Len(h) - 1].score_after >= 90

-----------------------------------------------------------------------------
(* The rollback handler, continued: rollbacks of a program that has a trust *)
(* record, with the callbacks of _setup_integrations registered             *)

InitEvent ==
    /\ input \in {ts \in TrustRecords :
                    ts.successful_executions <= ts.execution_count}
    /\ trust_scores = ("hash_A" :> input)
    /\ trust_threshold = 100
    /\ optimization_enabled = TRUE
    /\ trust_file = <<>>
    /\ cache = EmptyFunction
    /\ cache_stats = NewCacheStats(100)
    /\ monitor = NewMonitor
    /\ rollback = [NewRollbackHandler EXCEPT !.trust_update_callback = TRUE,
                                             !.cache_clear_callback = TRUE]
    /\ pipeline = NewPipeline
    /\ result = NoResult
    /\ now = 3

NextEvent ==
    \/ \E code_hash \in HandlerHashes, violation_type \in ViolationTypes :
          TriggerRollback(code_hash, violation_type)
    \/ \E enabled \in BOOLEAN : SetAutoTrustRevocation(enabled)

SpecEvent == InitEvent /\ [][NextEvent]_vars

\* the step is a trigger_rollback call that returned an event
IsRecordedRollback ==
    /\ now' = now + 1
    /\ result'.kind = "trigger_rollback"
    /\ result'.returned # <<>>

\* C33: the trust_score_after of a RollbackEvent is the code hash's revoked
\* score (0) when trust revocation ran, and max(0, trust_score_before - 0.5)
\* when revocation is disabled; it never exceeds trust_score_before.
C33_EventRecordsScoreAfter ==
    [][IsRecordedRollback =>
        \E event \in {result'.returned[1]} :
            /\ event.trust_score_after <= event.trust_score_before
            /\ event.trust_score_after
                    = IF result'.registered /\ result'.revoking
                      THEN RecordOf(trust_scores', event.code_hash).current_score
                      ELSE Max(0, event.trust_score_before - 50)]_vars

\* what the event does record: the score before less 0.5 when revocation
\* ran, and the score before when it did not
EventRecordsAssumedScoreAfter ==
    [][IsRecordedRollback =>
        \E event \in {result'.returned[1]} :
            /\ event.trust_score_after <= event.trust_score_before
            /\ event.trust_score_after
                    = IF result'.registered /\ result'.revoking
                      THEN Max(0, event.trust_score_before - 50)
                      ELSE event.trust_score_before]_vars

-----------------------------------------------------------------------------
(* The pipeline, continued: the metrics of a run that ends in a security   *)
(* violation (specification Spec)                                           *)

\* the ExecutionMetrics object the monitor built during the run that ended
\* last: still its current metrics when stop_monitoring did not get to
\* archive them, the newest entry of the history otherwise
MetricsOfLastRun(mon) ==
    IF mon.current_metrics # <<>> THEN mon.current_metrics[1] ELSE last_metrics(mon)

\* C34: when a run ends in a security violation, the metrics attached to the
\* result and passed to the trust update are the partial metrics captured
\* during that same run, including that run's violation.
C34_ViolationMetricsAreOfSameRun ==
    [][(IsRun /\ result'.run_status = "violation") =>
        \E captured \in {MetricsOfLastRun(monitor')} :
            /\ result'.metrics.instruction_count = captured.instruction_count
            /\ result'.metrics.execution_time = captured.execution_time
            /\ \E i \in 1..Len(result'.metrics.violations_detected) :
                  result'.metrics.violations_detected[i] = result'.violations[1]]_vars

\* what the result of a violating run does carry: the newest archived
\* metrics, which are those of an earlier run, or new metrics when nothing is
\* archived, with the violation appended
ViolationMetricsAreLastArchived ==
    [][(IsRun /\ result'.run_status = "violation") =>
        /\ Len(monitor'.execution_history) = Len(monitor.execution_history)
        /\ result'.metrics = last_metrics(monitor')
                \/ (monitor.execution_history = <<>>
                        /\ result'.metrics.instruction_count = 0)
        /\ result'.metrics.instruction_count
                = last_metrics(monitor).instruction_count]_vars

\* C38: once a run's metrics have been archived in the monitor's history, no
\* later run modifies them; the violations of a later run are never added to
\* an earlier run's archived metrics.
C38_ArchivedMetricsNeverModified ==
    [][\E old \in {monitor.execution_history}, new \in {monitor'.execution_history} :
        \E dropped \in {0, 1} :
            /\ Len(new) >= Len(old) - dropped
            /\ \A i \in (dropped + 1)..Len(old) : new[i - dropped] = old[i]]_vars

\* archived metrics are modified by violating runs only
ArchivedMetricsModifiedByViolationOnly ==
    [][(\E i \in 1..Len(monitor.execution_history) :
            /\ i <= Len(monitor'.execution_history)
            /\ monitor'.execution_history[i] # monitor.execution_history[i])
        => /\ IsRun
           /\ result'.run_status = "violation"
           /\ \E n \in {Len(monitor.execution_history)} :
                 monitor'.execution_history[n].violations_detected
                    = monitor.execution_history[n].violations_detected
                        \o result'.violations]_vars

-----------------------------------------------------------------------------
(* The monitor around a run, continued (specification SpecMonitor) *)

\* the step is a run of the interpreter under the monitor
IsMonitoredRun ==
    /\ now' = now + 1
    /\ result'.kind = "monitored_run"

\* the run of this step was archived: the history is the history before,
\* followed by the run's metrics, cut to its 100 newest entries
ArchivedThisRun ==
    \E old \in {monitor.execution_history}, new \in {monitor'.execution_history} :
        /\ Len(new) = Min(Len(old) + 1, 100)
        /\ new[Len(new)].violations_detected = result'.violations
        /\ new[Len(new)].instruction_count > 0
        /\ \A i \in 1..(Len(new) - 1) : new[i] = old[i + Len(old) + 1 - Len(new)]

\* C35: the metrics of every monitored run are archived in the monitor's
\* history when the run ends, whether it succeeded, faulted or violated, and
\* the history keeps only the most recent 100 runs.
C35_EveryRunArchived ==
    [][/\ Len(monitor'.execution_history) <= 100
       /\ IsMonitoredRun => ArchivedThisRun]_vars

\* runs that succeed or fault are archived
RunsArchivedUnlessViolation ==
    [][/\ Len(monitor'.execution_history) <= 100
       /\ (IsMonitoredRun /\ result'.run_status # "violation")
            => ArchivedThisRun]_vars

\* is_monitoring is false and there are no current metrics and no context
MonitorIdle ==
    /\ ~monitor.is_monitoring
    /\ monitor.current_metrics = <<>>
    /\ ~monitor.monitored_context

\* C36: after every run ends, whether by success, runtime fault or security
\* violation, the monitor is back in its idle state: is_monitoring is false
\* and it holds no current metrics and no monitored context.
C36_MonitorIdleAfterRun ==
    result.kind = "monitored_run" => MonitorIdle

\* the monitor is idle after a run that succeeded or faulted
MonitorIdleUnlessViolation ==
    (result.kind = "monitored_run" /\ result.run_status # "violation")
        => MonitorIdle

\* C37: within a single monitored run the rollback callback is invoked at
\* most once, whatever operations are recorded after the threshold is first
\* crossed, including the "monitor_stop" operation recorded when monitoring
\* stops.
C37_CallbackAtMostOncePerRun ==
    [][IsMonitoredRun =>
        /\ result'.callback_calls <= 1
        /\ pipeline'.rollback_count <= pipeline.rollback_count + 1]_vars

\* the callback is invoked at most twice in a run
CallbackAtMostTwicePerRun ==
    [][IsMonitoredRun =>
        /\ result'.callback_calls <= 2
        /\ pipeline'.rollback_count <= pipeline.rollback_count + 2]_vars

-----------------------------------------------------------------------------
(* Properties of the code cache, continued (specification SpecCache) *)

\* the step is a put for a code hash that is cached already
IsPutOfCachedHash ==
    /\ now' = now + 1
    /\ result'.kind = "put"
    /\ result'.code_hash \in DOMAIN cache

\* the put replaced the entry of its hash and left every other entry alone
ReplacedItsEntryOnly ==
    /\ DOMAIN cache' = DOMAIN cache
    /\ cache'[result'.code_hash].created_at = now
    /\ \A other \in DOMAIN cache \ {result'.code_hash} : cache'[other] = cache[other]
    /\ cache_stats'.evictions = cache_stats.evictions

\* C39: a put for a code hash that is already cached replaces that entry and
\* evicts no other entry, even when the cache is at capacity.
C39_PutOfCachedHashEvictsNothing ==
    [][IsPutOfCachedHash => ReplacedItsEntryOnly]_vars

\* a put for a cached hash leaves the other entries alone while the cache is
\* below its capacity
PutOfCachedHashBelowCapacity ==
    [][(IsPutOfCachedHash /\ Cardinality(DOMAIN cache) < cache_stats.max_size)
            => ReplacedItsEntryOnly]_vars

-----------------------------------------------------------------------------
(* Properties of the trust history (specification SpecTrust) *)

\* the step is an update_trust call, with or without violations
IsAnyTrustUpdate ==
    /\ now' = now + 1
    /\ result'.kind = "update_trust"

\* C40: each entry appended to a trust record's history by a trust update
\* describes that run: its score_before is the score before the update and
\* its score_after is the score after it, and entries of earlier runs are not
\* altered by later updates.
C40_HistoryEntryDescribesItsRun ==
    [][IsAnyTrustUpdate =>
        \E before \in {RecordOf(trust_scores, result'.code_hash)},
           after \in {RecordOf(trust_scores', result'.code_hash)} :
            \E old \in {before.trust_history}, new \in {after.trust_history} :
                /\ Len(new) = Len(old) + 1
                /\ new[Len(new)].score_before = before.current_score
                /\ new[Len(new)].score_after = after.current_score
                /\ \A i \in 1..Len(old) : new[i] = old[i]]_vars

\* what an update does to the history: the appended entry holds the score
\* after the update twice, and the entry before it, if there is one, gets
\* that score as its score_after
HistoryEntryHoldsScoreAfterTwice ==
    [][IsAnyTrustUpdate =>
        \E before \in {RecordOf(trust_scores, result'.code_hash)},
           after \in {RecordOf(trust_scores', result'.code_hash)} :
            \E old \in {before.trust_history}, new \in {after.trust_history} :
                /\ Len(new) = Len(old) + 1
                /\ new[Len(new)].score_before = after.current_score
                /\ new[Len(new)].score_after = after.current_score
                /\ \A i \in 1..(Len(old) - 1) : new[i] = old[i]
                /\ Len(old) > 0 =>
                        /\ new[Len(old)].score_after = after.current_score
                        /\ new[Len(old)].score_before = old[Len(old)].score_before]_vars

====
